---- MODULE Spec2Model ----
(***************************************************************************)
(* Model of the Expression-Measurement client: the polling effect of the   *)
(* four job views, the token / utterance segmenters, the playback timeline *)
(* synchroniser, the audio source resolution and the pure helpers.         *)
(*                                                                         *)
(* Times are integers in units of 0.01 s (0.7 s = 70, 8 s = 800).          *)
(***************************************************************************)
EXTENDS Integers, Sequences, FiniteSets, TLC

\* ------------------------------------------------------------------------
\* Bounds of the model
\* ------------------------------------------------------------------------
MaxEffects == 2    \* runs of the polling effect with a job id (mount + job changes)
MaxTicks == 2      \* ticks started over the life of a view
MaxLen == 2        \* prediction records in a payload
MaxTime == 1       \* record times are 0..MaxTime and one point TokenGap later

\* ------------------------------------------------------------------------
\* The polling views
\* ------------------------------------------------------------------------
ActivityPage == "ActivityPage"                      \* src/src/app/activity/page.tsx
ExpressionPage == "ExpressionPage"                  \* src/src/app/expression/page.tsx
SegmentedExpressionPage == "SegmentedExpressionPage" \* src/unnamed/part_004
LanguageActivityClient == "LanguageActivityClient"  \* language-activity/LanguageActivityClient.tsx

PollingViews ==
  {ActivityPage, ExpressionPage, SegmentedExpressionPage, LanguageActivityClient}

JobStatus ==
  {"QUEUED", "IN_PROGRESS", "COMPLETED", "FAILED", "UNKNOWN", "RESULTS_READY"}

\* what the remote job reports: a status, or a body with neither field ("absent")
RemoteStatus == {"QUEUED", "IN_PROGRESS", "COMPLETED", "FAILED", "absent"}

Jobs == {1, 2}     \* two distinct job identifiers
NoJob == 0         \* params.get("jobId") ?? ""  (the empty job id)
Gens == 1..MaxEffects
TickIds == 1..MaxTicks

\* a response body of the predictions endpoint, tagged with the job it is for
PayloadKinds == {"emptyArray", "emptyObject", "text", "array", "object"}
NullPayload == [kind |-> "null", job |-> NoJob]    \* useState<any>(null)
Payload(kind, j) == [kind |-> kind, job |-> j]

\* replies of GET /api/jobs/<id>: OK with a status body, or not OK
StatusReplies ==
  {[ok |-> TRUE, status |-> s] : s \in RemoteStatus}
    \cup {[ok |-> FALSE, status |-> "absent"]}

\* replies of GET /api/jobs/<id>/predictions: OK with any body, or not OK with
\* an error body (JSON object or text)
PredsReplies ==
  {[ok |-> TRUE, kind |-> b] : b \in PayloadKinds}
    \cup {[ok |-> FALSE, kind |-> b] : b \in {"object", "text"}}

NoError == "null"
ErrMsg == "Unknown error"

VARIABLES
  view,          \* which component this is (fixed for a behaviour)
  life,          \* "constructed" | "mounted" | "unmounted"
  jobId,         \* the job id of the current render
  status,        \* useState<JobStatus>("UNKNOWN")
  predictions,   \* useState<any>(null)
  error,         \* useState<string | null>(null)
  lastChecked,   \* id of the tick that last called setLastChecked (0 = null)
  pollRef,       \* pollRef.current: an interval id (= effect run) or 0 = null
  timers,        \* interval ids that are armed
  curEffect,     \* effect run whose cleanup is registered (0 = none)
  nextGen,       \* effect runs so far
  effJob,        \* job id captured by each effect run's closure
  cancelled,     \* effect runs whose closure variable `cancelled` is true
  ticks,         \* tick id -> [gen, pc]
  nextTick,      \* ticks started so far
  maxApplied,    \* history: highest tick id whose response has been applied
  last,          \* history: the last polling step [op, prev, tick, wrote]
  segView,       \* the view that builds the segments
  langRaw,       \* the language predictions of the payload, in payload order
  prosRaw,       \* the prosody predictions of the payload, in payload order
  segPhase,      \* "payload" (stored, memos not yet computed) | "built"
  segments,      \* the view's `segments` memo
  buffs,         \* history: the token buffer (buff / cur.tokens) of each segment
  variant,       \* history: "tokens" | "merge", the branch the memo took
  tokensInWin,   \* activity page: per row, the language tokens aggregated for it
  collected,     \* part_004: the language predictions its whole-job aggregate visits
  attached,      \* the timeupdate listener of the sync effect is attached
  currentTime,   \* audioRef.current.currentTime
  activeIdx,     \* useState<number | null>(null): index of the active row
  reported,      \* history: the index the last handler run wrote and scrolled to
  playing,       \* the audio element is playing
  sought,        \* history: the row whose click set the position (-1 = none)
  call,          \* a call of a pure helper: [fn, arg]
  result,        \* what the call returned (or that it threw)
  phase,         \* "called" | "returned" | "idle"
  audioView,     \* the page whose audio effect this is
  audioLife,     \* "constructed" | "mounted" | "unmounted"
  audioJob,      \* the job id of the current render
  audioParam,    \* params.get("audio") of the current render
  store,         \* jobs with a blob in the "files" object store
  urlCache,      \* jobs with an entry in urlCache
  session,       \* sessionStorage.getItem(`audioForJob:${job}`) per job
  audioUrl,      \* useState<string | null>(null): audioUrl / audioResolved
  loads,         \* effect run -> [job, param, cancelled, pc] of its closure
  nextLoad,      \* runs of the audio effect so far
  curLoad,       \* the run whose cleanup is registered (0 = none)
  audioLast,     \* history: the last step of a run and what it observed
  remoteGood     \* the remote has begun to answer every request with content

pollVars ==
  <<view, life, jobId, status, predictions, error, lastChecked, pollRef, timers,
    curEffect, nextGen, effJob, cancelled, ticks, nextTick, maxApplied, last>>

segVars ==
  <<segView, langRaw, prosRaw, segPhase, segments, buffs, variant, tokensInWin,
    collected>>

syncVars == <<attached, currentTime, activeIdx, reported, playing, sought>>

pureVars == <<call, result, phase>>

audioVars ==
  <<audioView, audioLife, audioJob, audioParam, store, urlCache, session, audioUrl,
    loads, nextLoad, curLoad, audioLast>>

vars == <<pollVars, segVars, syncVars, pureVars, audioVars, remoteGood>>

nonPollVars == <<segVars, syncVars, pureVars, audioVars, remoteGood>>
nonSegVars == <<pollVars, syncVars, pureVars, audioVars, remoteGood>>
nonSyncVars == <<pollVars, segVars, pureVars, audioVars, remoteGood>>
nonPureVars == <<pollVars, segVars, syncVars, audioVars, remoteGood>>
nonAudioVars == <<pollVars, segVars, syncVars, pureVars, remoteGood>>

\* ------------------------------------------------------------------------
\* Helpers of the polling effect
\* ------------------------------------------------------------------------
IdleTick == [gen |-> 0, pc |-> "unused"]

Max(a, b) == IF a >= b THEN a ELSE b

\* a test that takes only arrays for content
HasContent_ArrayOnly(data) == data.kind = "array"

\* hasContent: a non-empty array, or a non-null object with at least one key
HasContent(data) == data.kind = "array" \/ data.kind = "object"

\* the view declares a `cancelled` flag in its effect closure
HasCancelledFlag(v) == v # ActivityPage

\* the view fetches /api/jobs/<id> before the predictions
FetchesStatus(v) == v # ActivityPage

\* the cleanup sets `cancelled = true`
CleanupSetsCancelled(v) == v = LanguageActivityClient

\* the view guards setStatus(s) with `!cancelled`
StatusWriteGuarded(v) == v = LanguageActivityClient

IsCancelled(g) == g \in cancelled

\* an effect run is torn down once its cleanup has run
TornDown(g) == g \in 1..nextGen /\ g # curEffect

\* a translation that shows a COMPLETED job as RESULTS_READY
StatusFromBody_CompletedIsReady(s) ==
  IF s = "absent" THEN "UNKNOWN" ELSE IF s = "COMPLETED" THEN "RESULTS_READY" ELSE s

\* s = sData?.status ?? sData?.state ?? "UNKNOWN"
StatusFromBody(s) == IF s = "absent" THEN "UNKNOWN" ELSE s

StatusUpdater_OnlyInProgress(prev) ==
  IF prev = "IN_PROGRESS" THEN "RESULTS_READY" ELSE prev

\* setStatus((prev) => prev is IN_PROGRESS, QUEUED or UNKNOWN ? "RESULTS_READY" : prev)
StatusUpdater(prev) ==
  IF prev = "IN_PROGRESS" \/ prev = "QUEUED" \/ prev = "UNKNOWN"
  THEN "RESULTS_READY" ELSE prev

TimersAfterClear_Kept(ref, tm) == tm

\* if (pollRef.current) { clearInterval(pollRef.current); pollRef.current = null; }
TimersAfterClear(ref, tm) == IF ref # 0 THEN tm \ {ref} ELSE tm

\* the return value of the effect: if (pollRef.current) clearInterval(pollRef.current)
TimersAfterCleanup(ref, tm) == IF ref # 0 THEN tm \ {ref} ELSE tm

TimersAfterCatch_Stops(ref, tm) == IF ref # 0 THEN tm \ {ref} ELSE tm

\* the timers a caught fetch error leaves armed (the catch block touches none)
TimersAfterCatch(ref, tm) == tm

\* the synchronous head of tick(): the state it writes before the first await
TickHead(k) ==
  /\ error' = IF FetchesStatus(view) THEN NoError ELSE error
  /\ lastChecked' = IF FetchesStatus(view) THEN k ELSE lastChecked

FirstAwait(v) == IF FetchesStatus(v) THEN "awaitStatus" ELSE "awaitPreds"

Stale(k) == k < maxApplied

\* the record of a step: what it was, the status before it, the tick that took
\* it (0 = none) and the status its response carried ("" = none)
Step(op, k, wrote) == [op |-> op, prev |-> status, tick |-> k, wrote |-> wrote]

Applied(k) == IF k > maxApplied THEN k ELSE maxApplied

\* ------------------------------------------------------------------------
\* Init: the component is constructed, no effect has run yet
\* ------------------------------------------------------------------------
PollInit ==
  /\ view \in PollingViews
  /\ life = "constructed"
  /\ jobId \in Jobs \cup {NoJob}
  /\ status = "UNKNOWN"
  /\ predictions = NullPayload
  /\ error = NoError
  /\ lastChecked = 0
  /\ pollRef = 0
  /\ timers = {}
  /\ curEffect = 0
  /\ nextGen = 0
  /\ effJob = [g \in Gens |-> NoJob]
  /\ cancelled = {}
  /\ ticks = [k \in TickIds |-> IdleTick]
  /\ nextTick = 0
  /\ maxApplied = 0
  /\ last = Step("none", 0, "")

\* ------------------------------------------------------------------------
\* The effect body for job j: tick(); pollRef.current = setInterval(tick, 3000)
\* `tm` and `cn` are the timers and cancelled flags left by the cleanup before it.
\* ------------------------------------------------------------------------
RunEffect(j, tm, cn) ==
  IF j = NoJob
  THEN \* if (!jobId) return;
       /\ timers' = tm
       /\ cancelled' = cn
       /\ curEffect' = 0
       /\ UNCHANGED <<error, lastChecked, pollRef, nextGen, effJob, ticks, nextTick>>
       /\ last' = Step("effect", 0, "")
  ELSE LET g == nextGen + 1
           k == nextTick + 1
       IN /\ nextGen < MaxEffects
          /\ nextTick < MaxTicks
          /\ nextGen' = g
          /\ nextTick' = k
          /\ effJob' = [effJob EXCEPT ![g] = j]
          /\ cancelled' = cn
          /\ TickHead(k)
          /\ ticks' = [ticks EXCEPT ![k] = [gen |-> g, pc |-> FirstAwait(view)]]
          /\ pollRef' = g
          /\ timers' = tm \cup {g}
          /\ curEffect' = g
          /\ last' = Step("effect", 0, "")

\* first commit: the effect runs for the initial job id
Mount ==
  /\ life = "constructed"
  /\ UNCHANGED nonPollVars
  /\ life' = "mounted"
  /\ RunEffect(jobId, timers, cancelled)
  /\ UNCHANGED <<view, jobId, status, predictions, maxApplied>>

\* the cancelled flags after the cleanup of the registered effect run
CancelledAfterCleanup ==
  IF curEffect # 0 /\ CleanupSetsCancelled(view)
  THEN cancelled \cup {curEffect} ELSE cancelled

RegisteredCleanupTimers ==
  IF curEffect # 0 THEN TimersAfterCleanup(pollRef, timers) ELSE timers

\* the jobId search parameter changes: cleanup of the old run, then the effect again
ChangeJob(j) ==
  /\ life = "mounted"
  /\ UNCHANGED nonPollVars
  /\ j # jobId
  /\ jobId' = j
  /\ RunEffect(j, RegisteredCleanupTimers, CancelledAfterCleanup)
  /\ UNCHANGED <<view, life, status, predictions, maxApplied>>

\* the view is torn down: the cleanup of the registered effect run
Unmount ==
  /\ life = "mounted"
  /\ UNCHANGED nonPollVars
  /\ life' = "unmounted"
  /\ timers' = RegisteredCleanupTimers
  /\ cancelled' = CancelledAfterCleanup
  /\ curEffect' = 0
  /\ last' = Step("unmount", 0, "")
  /\ UNCHANGED <<view, jobId, status, predictions, error, lastChecked, pollRef,
                 nextGen, effJob, ticks, nextTick, maxApplied>>

\* the interval of effect run g fires: tick() runs up to its first await
TimerFire(g) ==
  /\ g \in timers
  /\ UNCHANGED nonPollVars
  /\ nextTick < MaxTicks
  /\ LET k == nextTick + 1
     IN /\ nextTick' = k
        /\ TickHead(k)
        /\ ticks' = [ticks EXCEPT ![k] = [gen |-> g, pc |-> FirstAwait(view)]]
  /\ last' = Step("timer", 0, "")
  /\ UNCHANGED <<view, life, jobId, status, predictions, pollRef, timers, curEffect,
                 nextGen, effJob, cancelled, maxApplied>>

\* the status a response writes: setStatus(s), guarded by !cancelled where the view does
StatusAfterStatusResponse(k, s) ==
  IF StatusWriteGuarded(view) /\ IsCancelled(ticks[k].gen)
  THEN status ELSE StatusFromBody(s)

\* the status fetch of tick k resolves
StatusResponse(k, r) ==
  /\ ticks[k].pc = "awaitStatus"
  /\ UNCHANGED nonPollVars
  /\ ticks' = [ticks EXCEPT ![k].pc = "awaitPreds"]
  /\ status' = IF r.ok THEN StatusAfterStatusResponse(k, r.status) ELSE status
  /\ maxApplied' = Applied(k)
  /\ last' = Step(IF r.ok THEN "status" ELSE "statusNotOk", k,
                   IF r.ok THEN StatusFromBody(r.status) ELSE "")
  /\ UNCHANGED <<view, life, jobId, predictions, error, lastChecked, pollRef, timers,
                 curEffect, nextGen, effJob, cancelled, nextTick>>

\* catch (e) { if (!cancelled) setError(e?.message ?? "Unknown error") }
\* (the activity page has no flag and always writes)
ErrorAfterCatch(k) ==
  IF HasCancelledFlag(view) /\ IsCancelled(ticks[k].gen) THEN error ELSE ErrMsg

\* a fetch (or reading its body) of tick k throws
FetchFail(k) ==
  /\ ticks[k].pc \in {"awaitStatus", "awaitPreds"}
  /\ UNCHANGED nonPollVars
  /\ ticks' = [ticks EXCEPT ![k].pc = "done"]
  /\ error' = ErrorAfterCatch(k)
  /\ timers' = TimersAfterCatch(pollRef, timers)
  /\ maxApplied' = Applied(k)
  /\ last' = Step("fail", k, "")
  /\ UNCHANGED <<view, life, jobId, status, predictions, lastChecked, pollRef,
                 curEffect, nextGen, effJob, cancelled, nextTick>>

AppliesContent_AnyBody(k, ok, data) ==
  /\ ok
  /\ ~(HasCancelledFlag(view) /\ IsCancelled(ticks[k].gen))

\* the predictions branch is taken: the response is OK, has content, and the
\* view's flag (if it has one) is not set
AppliesContent(k, ok, data) ==
  /\ ok
  /\ HasContent(data)
  /\ ~(HasCancelledFlag(view) /\ IsCancelled(ticks[k].gen))

StatusAfterNoContent_Dedup(k) ==
  IF view = ActivityPage /\ ~Stale(k) THEN "IN_PROGRESS" ELSE status

\* the else branch of the activity page: setStatus("IN_PROGRESS")
StatusAfterNoContent(k) == IF view = ActivityPage THEN "IN_PROGRESS" ELSE status

\* the status written with the predictions
StatusAfterContent(prev) ==
  IF view = ActivityPage THEN "RESULTS_READY" ELSE StatusUpdater(prev)

\* the predictions fetch of tick k resolves with body data
PredsResponse(k, r) ==
  LET data == Payload(r.kind, effJob[ticks[k].gen])
      ok == r.ok
  IN /\ ticks[k].pc = "awaitPreds"
     /\ UNCHANGED nonPollVars
     /\ ticks' = [ticks EXCEPT ![k].pc = "done"]
     /\ IF AppliesContent(k, ok, data)
        THEN /\ predictions' = data
             /\ status' = StatusAfterContent(status)
             /\ timers' = TimersAfterClear(pollRef, timers)
             /\ pollRef' = 0
        ELSE /\ status' = StatusAfterNoContent(k)
             /\ UNCHANGED <<predictions, timers, pollRef>>
     /\ maxApplied' = Applied(k)
     /\ last' = Step(IF AppliesContent(k, ok, data) THEN "content"
                      ELSE IF ok /\ HasContent(data) THEN "contentDropped"
                      ELSE IF ok THEN "empty" ELSE "predsNotOk", k, "")
     /\ UNCHANGED <<view, life, jobId, error, lastChecked, curEffect, nextGen,
                    effJob, cancelled, nextTick>>

PollNext ==
  \/ Mount
  \/ \E j \in Jobs \cup {NoJob} : ChangeJob(j)
  \/ Unmount
  \/ \E g \in Gens : TimerFire(g)
  \/ \E k \in TickIds, r \in StatusReplies : StatusResponse(k, r)
  \/ \E k \in TickIds : FetchFail(k)
  \/ \E k \in TickIds, r \in PredsReplies : PredsResponse(k, r)


\* ------------------------------------------------------------------------
\* Extraction and segmentation
\* ------------------------------------------------------------------------
TokenGap == 70         \* gap: 0.7
MaxTokens == 40        \* maxTokens: 40
ProsodyGap == 60       \* gap: 0.6
MaxDuration == 800     \* maxDuration: 8

Undef == -1            \* p?.time?.begin / p?.time?.end that is not a number
NoText == <<>>         \* p?.text that is undefined or ""

\* texts are sequences of characters
Texts == {<<"a">>, <<"b", ".">>}
Times == (0..MaxTime) \cup {MaxTime + TokenGap}

\* a prediction p of a model family: well-formed (any begin and end, also
\* begin > end), or lacking its text, its begin or its end
RawRecords ==
  [text : Texts, begin : Times, end : Times]
    \cup {[text |-> NoText, begin |-> 0, end |-> 1],
          [text |-> <<"a">>, begin |-> Undef, end |-> 1],
          [text |-> <<"a">>, begin |-> 0, end |-> Undef]}

SeqsUpTo(S, n) == UNION {[1..m -> S] : m \in 0..n}

SegmentingViews == {ActivityPage, SegmentedExpressionPage, LanguageActivityClient}

IsNumber(x) == x # Undef

RECURSIVE Flatten(_)
\* the concatenation of a sequence of sequences
Flatten(ss) == IF ss = <<>> THEN <<>> ELSE Head(ss) \o Flatten(Tail(ss))

RECURSIVE InsertByBegin(_, _)
\* r goes after every element whose begin is not greater (the sort is stable)
InsertByBegin(sorted, r) ==
  IF sorted = <<>> THEN <<r>>
  ELSE IF Head(sorted).begin <= r.begin
       THEN <<Head(sorted)>> \o InsertByBegin(Tail(sorted), r)
       ELSE <<r>> \o sorted

RECURSIVE SortByBegin(_)
\* .sort((a, b) => a.begin - b.begin)
SortByBegin(recs) ==
  IF recs = <<>> THEN <<>>
  ELSE InsertByBegin(SortByBegin(SubSeq(recs, 1, Len(recs) - 1)), recs[Len(recs)])

\* t.text && typeof t.begin === "number" && typeof t.end === "number"
HasTextAndTimes(t) == t.text # NoText /\ IsNumber(t.begin) /\ IsNumber(t.end)

\* the filter of the activity page's buildSegmentsFromLanguage
HasTextAndOrderedTimes(t) == HasTextAndTimes(t) /\ t.begin <= t.end

\* getProsodyUtterances: keeps text with numeric begin and end, sorted by begin
GetProsodyUtterances(raw) == SortByBegin(SelectSeq(raw, HasTextAndTimes))

\* getLanguageTokens of the activity page: every prediction, payload order
GetLanguageTokensActivity(raw) == raw

\* getLanguageTokens of part_004 and of the language-activity client
GetLanguageTokensFiltered(raw) == SortByBegin(SelectSeq(raw, HasTextAndTimes))

\* endPunct.test(text): /[.!?]/
EndPunct(text) == \E i \in 1..Len(text) : text[i] \in {".", "!", "?"}

IsSpace(c) == c = " "

IsJoinPunct(c) == c \in {",", ".", ";", "!", "?"}

RECURSIVE JoinWithSpace(_)
\* buff.map((x) => x.text).join(" ")
JoinWithSpace(texts) ==
  IF texts = <<>> THEN <<>>
  ELSE IF Len(texts) = 1 THEN texts[1]
  ELSE texts[1] \o <<" ">> \o JoinWithSpace(Tail(texts))

RECURSIVE SkipSpaces(_)
SkipSpaces(cs) == IF cs # <<>> /\ IsSpace(Head(cs)) THEN SkipSpaces(Tail(cs)) ELSE cs

RECURSIVE TightenPunct(_)
\* .replace(/\s+([,.;!?])/g, "$1")
TightenPunct(cs) ==
  IF cs = <<>> THEN <<>>
  ELSE IF IsSpace(Head(cs)) /\ SkipSpaces(cs) # <<>> /\ IsJoinPunct(Head(SkipSpaces(cs)))
       THEN TightenPunct(SkipSpaces(cs))
       ELSE <<Head(cs)>> \o TightenPunct(Tail(cs))

SegmentText(buff) == TightenPunct(JoinWithSpace([i \in 1..Len(buff) |-> buff[i].text]))

\* isNew with an inclusive gap test: a gap equal to the threshold starts a segment
IsNew_GapInclusive(toks, i, buffLen, gap, maxTokens) ==
  \/ i = 1
  \/ toks[i].begin - toks[i - 1].end >= gap
  \/ EndPunct(toks[i - 1].text)
  \/ buffLen >= maxTokens

\* isNew of the token loop at index i (1-based), with the open buffer's length
IsNew(toks, i, buffLen, gap, maxTokens) ==
  \/ i = 1
  \/ toks[i].begin - toks[i - 1].end > gap
  \/ EndPunct(toks[i - 1].text)
  \/ buffLen >= maxTokens

RECURSIVE TokenLoop_NoPush(_, _, _, _, _, _)
\* the loop without buff.push(t) / cur.tokens.push(t) in the else branch
TokenLoop_NoPush(toks, i, segs, cur, gap, maxTokens) ==
  IF i > Len(toks)
  THEN IF cur.tokens # <<>> THEN Append(segs, cur) ELSE segs
  ELSE IF IsNew(toks, i, Len(cur.tokens), gap, maxTokens)
       THEN TokenLoop_NoPush(toks, i + 1,
                      IF cur.tokens # <<>> THEN Append(segs, cur) ELSE segs,
                      [begin |-> toks[i].begin, end |-> toks[i].end, tokens |-> <<toks[i]>>],
                      gap, maxTokens)
       ELSE TokenLoop_NoPush(toks, i + 1, segs,
                      [begin |-> cur.begin, end |-> toks[i].end, tokens |-> cur.tokens],
                      gap, maxTokens)

RECURSIVE TokenLoop(_, _, _, _, _, _)
\* the loop over toks from index i: segs are the closed segments, cur the open
\* one as [begin, end, tokens] (tokens = buff; <<>> while cur is null)
TokenLoop(toks, i, segs, cur, gap, maxTokens) ==
  IF i > Len(toks)
  THEN IF cur.tokens # <<>> THEN Append(segs, cur) ELSE segs
  ELSE IF IsNew(toks, i, Len(cur.tokens), gap, maxTokens)
       THEN TokenLoop(toks, i + 1,
                      IF cur.tokens # <<>> THEN Append(segs, cur) ELSE segs,
                      [begin |-> toks[i].begin, end |-> toks[i].end, tokens |-> <<toks[i]>>],
                      gap, maxTokens)
       ELSE TokenLoop(toks, i + 1, segs,
                      [begin |-> cur.begin, end |-> toks[i].end,
                       tokens |-> Append(cur.tokens, toks[i])],
                      gap, maxTokens)

NoSegment == [begin |-> 0, end |-> 0, tokens |-> <<>>]

RECURSIVE SegmentTokensLoop_OverMax(_, _, _, _, _, _)
\* the client's loop with the size test cur.tokens.length > maxTokens
SegmentTokensLoop_OverMax(tokens, i, segs, cur, gap, maxTokens) ==
  IF i > Len(tokens)
  THEN IF cur.tokens # <<>> THEN Append(segs, cur) ELSE segs
  ELSE LET t == tokens[i]
           isNew == \/ i = 1
                    \/ t.begin - tokens[i - 1].end > gap
                    \/ EndPunct(tokens[i - 1].text)
                    \/ (cur.tokens # <<>> /\ Len(cur.tokens) > maxTokens)
       IN IF isNew
          THEN SegmentTokensLoop_OverMax(tokens, i + 1,
                                 IF cur.tokens # <<>> THEN Append(segs, cur) ELSE segs,
                                 [begin |-> t.begin, end |-> t.end, tokens |-> <<t>>],
                                 gap, maxTokens)
          ELSE SegmentTokensLoop_OverMax(tokens, i + 1, segs,
                                 [begin |-> cur.begin, end |-> t.end,
                                  tokens |-> Append(cur.tokens, t)],
                                 gap, maxTokens)

RECURSIVE SegmentTokensLoop(_, _, _, _, _, _)
\* the loop of the client's segmentTokens from index i: cur is the open
\* Segment {begin, end, tokens} (tokens = <<>> while cur is null)
SegmentTokensLoop(tokens, i, segs, cur, gap, maxTokens) ==
  IF i > Len(tokens)
  THEN IF cur.tokens # <<>> THEN Append(segs, cur) ELSE segs
  ELSE LET t == tokens[i]
           isNew == \/ i = 1
                    \/ t.begin - tokens[i - 1].end > gap
                    \/ EndPunct(tokens[i - 1].text)
                    \/ (cur.tokens # <<>> /\ Len(cur.tokens) >= maxTokens)
       IN IF isNew
          THEN SegmentTokensLoop(tokens, i + 1,
                                 IF cur.tokens # <<>> THEN Append(segs, cur) ELSE segs,
                                 [begin |-> t.begin, end |-> t.end, tokens |-> <<t>>],
                                 gap, maxTokens)
          ELSE SegmentTokensLoop(tokens, i + 1, segs,
                                 [begin |-> cur.begin, end |-> t.end,
                                  tokens |-> Append(cur.tokens, t)],
                                 gap, maxTokens)

\* segmentTokens of the language-activity client: Segment = {begin, end, tokens}
SegmentTokens(tokens, gap, maxTokens) ==
  SegmentTokensLoop(tokens, 1, <<>>, NoSegment, gap, maxTokens)

\* Segment = {text, begin, end} of the two pages
TextSegments(groups) ==
  [i \in 1..Len(groups) |->
     [text |-> SegmentText(groups[i].tokens), begin |-> groups[i].begin,
      end |-> groups[i].end]]

\* buildSegmentsFromLanguage of the activity page: filters and sorts first
BuildSegmentsFromLanguageActivity(tokens, gap, maxTokens) ==
  TextSegments(TokenLoop(SortByBegin(SelectSeq(tokens, HasTextAndOrderedTimes)),
                         1, <<>>, NoSegment, gap, maxTokens))

\* buildSegmentsFromLanguage of part_004: takes the tokens as they are
BuildSegmentsFromLanguage(tokens, gap, maxTokens) ==
  TextSegments(TokenLoop(tokens, 1, <<>>, NoSegment, gap, maxTokens))

\* `${cur.text} ${u.text}`.replace(/\s+/g, " ").trim()  (texts hold no spaces)
MergedText(a, b) == a \o <<" ">> \o b

\* a merge test that leaves out the boundary: silent < gap
WithinGap_Exclusive(u, cur, gap) == u.begin - cur.end < gap

\* silent <= gap, with silent = u.begin - cur.end
WithinGap(u, cur, gap) == u.begin - cur.end <= gap

\* a merge that never looks at the duration
WithinDuration_Unchecked(u, cur, maxDur) == TRUE

\* newDur <= maxDur, with newDur = u.end - cur.begin
WithinDuration(u, cur, maxDur) == u.end - cur.begin <= maxDur

RECURSIVE MergeLoop(_, _, _, _, _, _)
\* the loop of mergeProsodyUtterances over arr from index i; cur.utts is a
\* history field: the utterances merged into cur
MergeLoop(arr, i, segs, cur, gap, maxDur) ==
  IF i > Len(arr) THEN Append(segs, cur)
  ELSE LET u == arr[i]
       IN IF WithinGap(u, cur, gap) /\ WithinDuration(u, cur, maxDur)
          THEN MergeLoop(arr, i + 1, segs,
                         [text |-> MergedText(cur.text, u.text), begin |-> cur.begin,
                          end |-> u.end, utts |-> Append(cur.utts, u)], gap, maxDur)
          ELSE MergeLoop(arr, i + 1, Append(segs, cur),
                         [text |-> u.text, begin |-> u.begin, end |-> u.end,
                          utts |-> <<u>>], gap, maxDur)

\* mergeProsodyUtterances, each segment with the utterances merged into it
MergeGroups(utts, gap, maxDur) ==
  LET arr == SortByBegin(utts)
  IN IF arr = <<>> THEN <<>>
     ELSE MergeLoop(arr, 2, <<>>,
                    [text |-> arr[1].text, begin |-> arr[1].begin, end |-> arr[1].end,
                     utts |-> <<arr[1]>>],
                    gap, maxDur)

\* mergeProsodyUtterances
MergeProsodyUtterances(utts, gap, maxDur) ==
  LET groups == MergeGroups(utts, gap, maxDur)
  IN [i \in 1..Len(groups) |->
        [text |-> groups[i].text, begin |-> groups[i].begin, end |-> groups[i].end]]

\* the tokens the loop of each view's segmenter walks
ToksOfActivityPage(lang) ==
  SortByBegin(SelectSeq(GetLanguageTokensActivity(lang), HasTextAndOrderedTimes))

ToksOfSegmentedExpressionPage(lang) == GetLanguageTokensFiltered(lang)

ToksOfLanguageActivityClient(lang) == GetLanguageTokensFiltered(lang)

ToksOf(v, lang) ==
  IF v = ActivityPage THEN ToksOfActivityPage(lang)
  ELSE IF v = SegmentedExpressionPage THEN ToksOfSegmentedExpressionPage(lang)
  ELSE ToksOfLanguageActivityClient(lang)

\* the buffers of the token loop, one per pushed segment
BuffsOf(toks) ==
  LET groups == TokenLoop(toks, 1, <<>>, NoSegment, TokenGap, MaxTokens)
  IN [i \in 1..Len(groups) |-> groups[i].tokens]

\* langTokens.length > 0 of the two pages
UsesTokens(v, lang) ==
  IF v = ActivityPage THEN Len(GetLanguageTokensActivity(lang)) > 0
  ELSE Len(GetLanguageTokensFiltered(lang)) > 0

\* the branch of the `segments` memo (the client has the token branch only)
VariantOf(v, lang) ==
  IF v = LanguageActivityClient \/ UsesTokens(v, lang) THEN "tokens" ELSE "merge"

\* eventsInRange(items, b0, b1)
EventsInRange(items, b0, b1) ==
  LET InRange(i) == IsNumber(i.begin) /\ IsNumber(i.end) /\ i.begin < b1 /\ b0 < i.end
  IN SelectSeq(items, InRange)

\* tokensInWin of every rendered row of the activity page
TokensInWinOf(v, lang, segs) ==
  IF v = ActivityPage
  THEN [i \in 1..Len(segs) |->
          EventsInRange(GetLanguageTokensActivity(lang), segs[i].begin, segs[i].end)]
  ELSE <<>>

\* the predictions collectEmotions(predictions, "language") passes to its callback
CollectedOf(v, lang) == IF v = SegmentedExpressionPage THEN lang ELSE <<>>

\* the `segments` memo of the activity page
SegmentsOfActivityPage(lang, pros) ==
  IF Len(GetLanguageTokensActivity(lang)) > 0
  THEN BuildSegmentsFromLanguageActivity(GetLanguageTokensActivity(lang), TokenGap, MaxTokens)
  ELSE MergeProsodyUtterances(GetProsodyUtterances(pros), ProsodyGap, MaxDuration)

\* the `segments` memo of part_004
SegmentsOfSegmentedExpressionPage(lang, pros) ==
  IF Len(GetLanguageTokensFiltered(lang)) > 0
  THEN BuildSegmentsFromLanguage(GetLanguageTokensFiltered(lang), TokenGap, MaxTokens)
  ELSE MergeProsodyUtterances(GetProsodyUtterances(pros), ProsodyGap, MaxDuration)

\* the `segments` memo of the language-activity client
SegmentsOfLanguageActivityClient(lang) ==
  SegmentTokens(GetLanguageTokensFiltered(lang), TokenGap, MaxTokens)

\* a payload has been stored: its predictions of the two families
SegInit ==
  /\ segView \in SegmentingViews
  /\ langRaw \in SeqsUpTo(RawRecords, MaxLen)
  /\ prosRaw \in SeqsUpTo(RawRecords, MaxLen - Len(langRaw))
  /\ segPhase = "payload"
  /\ segments = <<>>
  /\ buffs = <<>>
  /\ variant = "none"
  /\ tokensInWin = <<>>
  /\ collected = <<>>

\* the memos of the activity page are computed
BuildActivity ==
  /\ segView = ActivityPage
  /\ segPhase = "payload"
  /\ segments' = SegmentsOfActivityPage(langRaw, prosRaw)
  /\ segPhase' = "built"
  /\ variant' = VariantOf(segView, langRaw)
  /\ buffs' = IF variant' = "tokens" THEN BuffsOf(ToksOf(segView, langRaw)) ELSE <<>>
  /\ tokensInWin' = TokensInWinOf(segView, langRaw, segments')
  /\ collected' = CollectedOf(segView, langRaw)
  /\ UNCHANGED <<segView, langRaw, prosRaw>>
  /\ UNCHANGED nonSegVars

\* the memos of part_004 are computed
BuildSegmentedExpression ==
  /\ segView = SegmentedExpressionPage
  /\ segPhase = "payload"
  /\ segments' = SegmentsOfSegmentedExpressionPage(langRaw, prosRaw)
  /\ segPhase' = "built"
  /\ variant' = VariantOf(segView, langRaw)
  /\ buffs' = IF variant' = "tokens" THEN BuffsOf(ToksOf(segView, langRaw)) ELSE <<>>
  /\ tokensInWin' = TokensInWinOf(segView, langRaw, segments')
  /\ collected' = CollectedOf(segView, langRaw)
  /\ UNCHANGED <<segView, langRaw, prosRaw>>
  /\ UNCHANGED nonSegVars

\* the memos of the language-activity client are computed
BuildLanguageActivity ==
  /\ segView = LanguageActivityClient
  /\ segPhase = "payload"
  /\ segments' = SegmentsOfLanguageActivityClient(langRaw)
  /\ segPhase' = "built"
  /\ variant' = VariantOf(segView, langRaw)
  /\ buffs' = [i \in 1..Len(segments') |-> segments'[i].tokens]
  /\ tokensInWin' = TokensInWinOf(segView, langRaw, segments')
  /\ collected' = CollectedOf(segView, langRaw)
  /\ UNCHANGED <<segView, langRaw, prosRaw>>
  /\ UNCHANGED nonSegVars

\* the segmenting part is not running
SegIdle ==
  /\ segView = ActivityPage
  /\ langRaw = <<>>
  /\ prosRaw = <<>>
  /\ segPhase = "idle"
  /\ segments = <<>>
  /\ buffs = <<>>
  /\ variant = "none"
  /\ tokensInWin = <<>>
  /\ collected = <<>>

\* the polling part is not running
PollIdle ==
  /\ view = ActivityPage
  /\ life = "idle"
  /\ jobId = NoJob
  /\ status = "UNKNOWN"
  /\ predictions = NullPayload
  /\ error = NoError
  /\ lastChecked = 0
  /\ pollRef = 0
  /\ timers = {}
  /\ curEffect = 0
  /\ nextGen = 0
  /\ effJob = [g \in Gens |-> NoJob]
  /\ cancelled = {}
  /\ ticks = [k \in TickIds |-> IdleTick]
  /\ nextTick = 0
  /\ maxApplied = 0
  /\ last = Step("none", 0, "")

SegNext ==
  \/ BuildActivity
  \/ BuildSegmentedExpression
  \/ BuildLanguageActivity

\* ------------------------------------------------------------------------
\* Timeline synchronisation (activity page and part_004)
\* ------------------------------------------------------------------------
NotFound == -1         \* let idx = -1
NullIdx == -2          \* useState<number | null>(null)
Epsilon == 1           \* sec + 0.01

SyncViews == {ActivityPage, SegmentedExpressionPage}

\* well-formed predictions (text, numeric begin and end)
WellFormedRecords == [text : Texts, begin : Times, end : Times]

\* t >= s.begin && t < s.end
Contains(s, t) == t >= s.begin /\ t < s.end

\* the loop of the handler: the first index (0-based) whose segment contains t
FindIndex(segs, t) ==
  IF \E i \in 1..Len(segs) : Contains(segs[i], t)
  THEN (CHOOSE i \in 1..Len(segs) :
          /\ Contains(segs[i], t)
          /\ \A j \in 1..(i - 1) : ~Contains(segs[j], t)) - 1
  ELSE NotFound

\* if (idx !== -1 && idx !== activeIdx): setActiveIdx(idx) and scrollIntoView
Reports(idx) == idx # NotFound /\ idx # activeIdx

\* updateActive / onTime at playback position t
UpdateActive(t) ==
  LET idx == FindIndex(segments, t)
  IN /\ activeIdx' = IF Reports(idx) THEN idx ELSE activeIdx
     /\ reported' = IF Reports(idx) THEN idx ELSE NotFound

\* the segments memo of a view
SegmentsOf(v, lang, pros) ==
  IF v = ActivityPage THEN SegmentsOfActivityPage(lang, pros)
  ELSE IF v = SegmentedExpressionPage THEN SegmentsOfSegmentedExpressionPage(lang, pros)
  ELSE SegmentsOfLanguageActivityClient(lang)

\* the page has rendered the segments of a payload of one family; the audio
\* element is at position 0 and the sync effect has not run yet
SyncInit ==
  /\ segView \in SyncViews
  /\ \/ langRaw \in SeqsUpTo(WellFormedRecords, MaxLen) /\ prosRaw = <<>>
     \/ langRaw = <<>> /\ prosRaw \in SeqsUpTo(WellFormedRecords, MaxLen)
  /\ segPhase = "built"
  /\ segments = SegmentsOf(segView, langRaw, prosRaw)
  /\ variant = VariantOf(segView, langRaw)
  /\ buffs = IF variant = "tokens" THEN BuffsOf(ToksOf(segView, langRaw)) ELSE <<>>
  /\ tokensInWin = TokensInWinOf(segView, langRaw, segments)
  /\ collected = CollectedOf(segView, langRaw)
  /\ attached = FALSE
  /\ currentTime = 0
  /\ activeIdx = NullIdx
  /\ reported = NotFound
  /\ playing = FALSE
  /\ sought = NotFound

\* the sync effect runs: if (!el || segments.length === 0) return;
\* updateActive(); el.addEventListener("timeupdate", updateActive)
AttachListener ==
  /\ ~attached
  /\ Len(segments) # 0
  /\ attached' = TRUE
  /\ UpdateActive(currentTime)
  /\ UNCHANGED <<currentTime, playing, sought>>
  /\ UNCHANGED nonSyncVars

\* playback reaches position t and the element fires timeupdate
TimeUpdate(t) ==
  /\ attached
  /\ currentTime' = t
  /\ UpdateActive(t)
  /\ sought' = NotFound
  /\ UNCHANGED <<attached, playing>>
  /\ UNCHANGED nonSyncVars

\* jumpTo(seg.begin), the click handler of row idx (0-based):
\* currentTime = Math.max(0, sec + 0.01); play()
JumpTo(idx) ==
  /\ attached
  /\ idx + 1 \in 1..Len(segments)
  /\ currentTime' = Max(0, segments[idx + 1].begin + Epsilon)
  /\ playing' = TRUE
  /\ sought' = idx
  /\ UNCHANGED <<attached, activeIdx, reported>>
  /\ UNCHANGED nonSyncVars

\* the synchroniser is not running
SyncIdle ==
  /\ attached = FALSE
  /\ currentTime = 0
  /\ activeIdx = NullIdx
  /\ reported = NotFound
  /\ playing = FALSE
  /\ sought = NotFound

SyncNext ==
  \/ AttachListener
  \/ \E t \in Times : TimeUpdate(t)
  \/ \E idx \in 0..(MaxLen - 1) : JumpTo(idx)

\* ------------------------------------------------------------------------
\* Audio source resolution (activity page and part_004) and the audio store
\* ------------------------------------------------------------------------
AudioViews == {ActivityPage, SegmentedExpressionPage}

\* URL values: null, the empty string, an object URL of the job's stored
\* blob, the URL kept in sessionStorage for the job, the ?audio= parameter
NoUrl == [src |-> "null", job |-> NoJob]
EmptyUrl == [src |-> "empty", job |-> NoJob]
BlobUrl(j) == [src |-> "blob", job |-> j]
SessionUrl(j) == [src |-> "session", job |-> j]
QueryUrl == [src |-> "query", job |-> NoJob]

\* !url
Falsy(u) == u.src \in {"null", "empty"}

\* getAudioUrl(jobId): the cached URL, else an object URL of the stored blob,
\* else null
GetAudioUrl(j) == IF j \in urlCache \/ j \in store THEN BlobUrl(j) ELSE NoUrl

\* urlCache.set(jobId, url) when a blob was found
CacheAfterGet(j) == IF j \in store THEN urlCache \cup {j} ELSE urlCache

\* the fallbacks tried in the other order: ?audio= before sessionStorage
ResolveUrl_QueryFirst(stored, ss, qp) ==
  LET u1 == IF Falsy(stored) /\ ~Falsy(qp) THEN qp ELSE stored
      u2 == IF Falsy(u1) /\ ~Falsy(ss) THEN ss ELSE u1
  IN IF Falsy(u2) THEN NoUrl ELSE u2

\* the body of loadAudio / resolveAudio after `await getAudioUrl(jobId)`:
\* the value handed to setAudioUrl, `url || null`
ResolveUrl(stored, ss, qp) ==
  LET u1 == IF Falsy(stored) /\ ~Falsy(ss) THEN ss ELSE stored
      u2 == IF Falsy(u1) /\ ~Falsy(qp) THEN qp ELSE u1
  IN IF Falsy(u2) THEN NoUrl ELSE u2

IdleLoad == [job |-> NoJob, param |-> NoUrl, cancelled |-> FALSE, pc |-> "unused"]

NoAudioStep ==
  [op |-> "none", run |-> 0, blob |-> FALSE, ss |-> NoUrl, qp |-> NoUrl,
   prev |-> NoUrl, torn |-> FALSE]

AudioInit ==
  /\ audioView \in AudioViews
  /\ audioLife = "constructed"
  /\ audioJob \in Jobs \cup {NoJob}
  /\ audioParam \in {NoUrl, EmptyUrl, QueryUrl}
  /\ store \in SUBSET Jobs
  /\ urlCache = {}
  /\ session \in [Jobs -> {NoUrl, EmptyUrl}] \cup {[j \in Jobs |-> SessionUrl(j)]}
  /\ audioUrl = NoUrl
  /\ loads = [g \in Gens |-> IdleLoad]
  /\ nextLoad = 0
  /\ curLoad = 0
  /\ audioLast = NoAudioStep

\* the audio part is not running
AudioIdle ==
  /\ audioView = ActivityPage
  /\ audioLife = "idle"
  /\ audioJob = NoJob
  /\ audioParam = NoUrl
  /\ store = {}
  /\ urlCache = {}
  /\ session = [j \in Jobs |-> NoUrl]
  /\ audioUrl = NoUrl
  /\ loads = [g \in Gens |-> IdleLoad]
  /\ nextLoad = 0
  /\ curLoad = 0
  /\ audioLast = NoAudioStep

\* the effect body: let cancelled = false; loadAudio() up to its first await
\* (`ls` are the closures left by the cleanup before it)
RunAudioEffect(j, p, ls) ==
  LET g == nextLoad + 1
  IN /\ nextLoad < MaxEffects
     /\ nextLoad' = g
     /\ curLoad' = g
     /\ loads' = [ls EXCEPT ![g] =
                    [job |-> j, param |-> p, cancelled |-> FALSE,
                     pc |-> IF j = NoJob THEN "done" ELSE "awaitUrl"]]
     /\ audioLast' = [NoAudioStep EXCEPT !.op = "effect", !.run = g]

\* return () => { cancelled = true; }
LoadsAfterCleanup ==
  IF curLoad # 0 THEN [loads EXCEPT ![curLoad].cancelled = TRUE] ELSE loads

AudioMount ==
  /\ audioLife = "constructed"
  /\ audioLife' = "mounted"
  /\ RunAudioEffect(audioJob, audioParam, loads)
  /\ UNCHANGED <<audioView, audioJob, audioParam, store, urlCache, session, audioUrl>>
  /\ UNCHANGED nonAudioVars

\* jobId or params changes: the cleanup, then the effect again
AudioDepsChange(j, p) ==
  /\ audioLife = "mounted"
  /\ <<j, p>> # <<audioJob, audioParam>>
  /\ audioJob' = j
  /\ audioParam' = p
  /\ RunAudioEffect(j, p, LoadsAfterCleanup)
  /\ UNCHANGED <<audioView, audioLife, store, urlCache, session, audioUrl>>
  /\ UNCHANGED nonAudioVars

AudioUnmount ==
  /\ audioLife = "mounted"
  /\ audioLife' = "unmounted"
  /\ loads' = LoadsAfterCleanup
  /\ curLoad' = 0
  /\ audioLast' = [NoAudioStep EXCEPT !.op = "unmount"]
  /\ UNCHANGED <<audioView, audioJob, audioParam, store, urlCache, session, audioUrl,
                 nextLoad>>
  /\ UNCHANGED nonAudioVars

\* getAudioUrl of run g resolves and loadAudio / resolveAudio runs to its end
AudioResolved(g) ==
  LET j == loads[g].job
      url == ResolveUrl(GetAudioUrl(j), session[j], loads[g].param)
  IN /\ loads[g].pc = "awaitUrl"
     /\ loads' = [loads EXCEPT ![g].pc = "done"]
     /\ urlCache' = CacheAfterGet(j)
     /\ audioUrl' = IF loads[g].cancelled THEN audioUrl ELSE url
     /\ audioLast' = [op |-> "resolved", run |-> g, blob |-> j \in store,
                      ss |-> session[j], qp |-> loads[g].param, prev |-> audioUrl,
                      torn |-> g # curLoad]
     /\ UNCHANGED <<audioView, audioLife, audioJob, audioParam, store, session,
                    nextLoad, curLoad>>
     /\ UNCHANGED nonAudioVars

\* openDB or the get request of getAudioBlob fails: getAudioUrl rejects and
\* loadAudio / resolveAudio ends without writing
AudioStoreFails(g) ==
  /\ loads[g].pc = "awaitUrl"
  /\ loads[g].job \notin urlCache
  /\ loads' = [loads EXCEPT ![g].pc = "threw"]
  /\ audioLast' = [NoAudioStep EXCEPT !.op = "threw", !.run = g, !.prev = audioUrl,
                                     !.torn = g # curLoad]
  /\ UNCHANGED <<audioView, audioLife, audioJob, audioParam, store, urlCache, session,
                 audioUrl, nextLoad, curLoad>>
  /\ UNCHANGED nonAudioVars

\* putAudio(jobId, blob) of the upload page completes
PutAudio(j) ==
  /\ j \notin store
  /\ store' = store \cup {j}
  /\ audioLast' = [NoAudioStep EXCEPT !.op = "put"]
  /\ UNCHANGED <<audioView, audioLife, audioJob, audioParam, urlCache, session,
                 audioUrl, loads, nextLoad, curLoad>>
  /\ UNCHANGED nonAudioVars

AudioNext ==
  \/ AudioMount
  \/ \E j \in Jobs \cup {NoJob}, p \in {NoUrl, EmptyUrl, QueryUrl} : AudioDepsChange(j, p)
  \/ AudioUnmount
  \/ \E g \in Gens : AudioResolved(g)
  \/ \E g \in Gens : AudioStoreFails(g)
  \/ \E j \in Jobs : PutAudio(j)

\* ------------------------------------------------------------------------
\* Pure helpers: normaliser, category resolver, aggregator, extractor
\* ------------------------------------------------------------------------
\* JavaScript values: numbers are integers in units of 0.0001 (1 = 10000)
One == 10000
Percent == 100         \* v / 100

Num(n) == [t |-> "number", n |-> n]
Str(s) == [t |-> "string", s |-> s]
NaN == [t |-> "NaN"]
Undefined == [t |-> "undefined"]
Null == [t |-> "null"]
Arr(a) == [t |-> "array", a |-> a]

Min(a, b) == IF a <= b THEN a ELSE b

\* normConfidence without the 0-100 scale: Math.max(0, Math.min(1, v))
NormConfidence_NoPercent(v) ==
  IF v.t # "number" THEN 0 ELSE Max(0, Min(One, v.n))

\* normConfidence(v)
NormConfidence(v) ==
  IF v.t # "number" THEN 0
  ELSE IF v.n > One THEN Min(One, v.n \div Percent)
  ELSE Max(0, Min(One, v.n))

\* numbers given to the normaliser: -3 .. 1.01 finely, then up to 150
NumberInputs ==
  {-30000, -1, 0, 1, 2000, 5000, 9000, 9999, 10000}
    \cup {One + k * 100 : k \in 1..50}
    \cup {k * 10 * One : k \in 1..15}

ScoreInputs ==
  {Num(n) : n \in NumberInputs} \cup {NaN, Undefined, Null, Str(<<"0", ".", "5">>)}

NoResult == [t |-> "none"]
NoCall == [fn |-> "none", arg |-> Undefined]
Threw == [t |-> "TypeError"]

NormCalls == {[fn |-> "normConfidence", arg |-> v] : v \in ScoreInputs}

CallNormConfidence ==
  /\ phase = "called"
  /\ call.fn = "normConfidence"
  /\ result' = Num(NormConfidence(call.arg))
  /\ phase' = "returned"
  /\ UNCHANGED call
  /\ UNCHANGED nonPureVars

\* ------------------------------------------------------------------------
\* Category resolver.  Strings are sequences of one-character strings over
\* letters, digits and the characters of OtherChars.
\* ------------------------------------------------------------------------
Lowers ==
  <<"a", "b", "c", "d", "e", "f", "g", "h", "i", "j", "k", "l", "m",
    "n", "o", "p", "q", "r", "s", "t", "u", "v", "w", "x", "y", "z">>
Uppers ==
  <<"A", "B", "C", "D", "E", "F", "G", "H", "I", "J", "K", "L", "M",
    "N", "O", "P", "Q", "R", "S", "T", "U", "V", "W", "X", "Y", "Z">>
DigitChars == <<"0", "1", "2", "3", "4", "5", "6", "7", "8", "9">>
OtherChars == {" ", "!", "(", ")", "-", "."}

IsIn(cs, c) == \E i \in 1..Len(cs) : cs[i] = c
IndexIn(cs, c) == CHOOSE i \in 1..Len(cs) : cs[i] = c

Chars ==
  {Lowers[i] : i \in 1..26} \cup {Uppers[i] : i \in 1..26}
    \cup {DigitChars[i] : i \in 1..10} \cup OtherChars

\* the UTF-16 code of every character
CharCodes ==
  [c \in Chars |->
     IF IsIn(Lowers, c) THEN 96 + IndexIn(Lowers, c)
     ELSE IF IsIn(Uppers, c) THEN 64 + IndexIn(Uppers, c)
     ELSE IF IsIn(DigitChars, c) THEN 47 + IndexIn(DigitChars, c)
     ELSE CASE c = " " -> 32 [] c = "!" -> 33 [] c = "(" -> 40
            [] c = ")" -> 41 [] c = "-" -> 45 [] c = "." -> 46]

\* name.charCodeAt(i)
CharCodeAt(c) == CharCodes[c]

RECURSIVE HueLoop(_, _, _)
\* for (let i = 0; i < name.length; i++) h = (h * 31 + name.charCodeAt(i)) % 360
HueLoop(name, i, h) ==
  IF i > Len(name) THEN h
  ELSE HueLoop(name, i + 1, (h * 31 + CharCodeAt(name[i])) % 360)

Hsl(h) == [kind |-> "hsl", h |-> h, s |-> 70, l |-> 60]

\* the loop starting at the second character
ColorForFallback_SkipFirst(name) == Hsl(HueLoop(name, 2, 0))

\* colorForFallback(name)
ColorForFallback(name) == Hsl(HueLoop(name, 1, 0))

\* .toLowerCase() and .toUpperCase(), per character
LowerCase == [c \in Chars |-> IF IsIn(Uppers, c) THEN Lowers[IndexIn(Uppers, c)] ELSE c]
UpperCase == [c \in Chars |-> IF IsIn(Lowers, c) THEN Uppers[IndexIn(Lowers, c)] ELSE c]

\* name.toLowerCase()
ToLowerCase(cs) == [i \in 1..Len(cs) |-> LowerCase[cs[i]]]

\* the characters /[a-z0-9\s]/ matches
KeptChars == {Lowers[i] : i \in 1..26} \cup {DigitChars[i] : i \in 1..10} \cup {" "}

\* .replace(/[()]/g, " ").replace(/[^a-z0-9\s]/g, " "), per character
PunctToSpace(cs) ==
  [i \in 1..Len(cs) |-> IF cs[i] \in {"(", ")"} \/ cs[i] \notin KeptChars THEN " " ELSE cs[i]]

RECURSIVE CollapseSpaces(_)
\* .replace(/\s+/g, " ")
CollapseSpaces(cs) ==
  IF cs = <<>> THEN <<>>
  ELSE IF IsSpace(Head(cs)) THEN <<" ">> \o CollapseSpaces(SkipSpaces(cs))
  ELSE <<Head(cs)>> \o CollapseSpaces(Tail(cs))

RECURSIVE TrimEnd(_)
TrimEnd(cs) ==
  IF cs # <<>> /\ IsSpace(cs[Len(cs)]) THEN TrimEnd(SubSeq(cs, 1, Len(cs) - 1)) ELSE cs

\* .trim()
Trim(cs) == TrimEnd(SkipSpaces(cs))

RECURSIVE SplitOnSpace(_, _)
\* cleaned.split(" "): cur is the word being read
SplitOnSpace(cs, cur) ==
  IF cs = <<>> THEN <<cur>>
  ELSE IF IsSpace(Head(cs)) THEN <<cur>> \o SplitOnSpace(Tail(cs), <<>>)
  ELSE SplitOnSpace(Tail(cs), Append(cur, Head(cs)))

\* w.charAt(0).toUpperCase() + w.slice(1)
Capitalise(w) == IF w = <<>> THEN <<>> ELSE <<UpperCase[w[1]]>> \o Tail(w)

\* parts[0] + parts.slice(1).map(...).join("")
Camel(parts) == parts[1] \o Flatten([i \in 1..(Len(parts) - 1) |-> Capitalise(parts[i + 1])])

Cleaned(name) == Trim(CollapseSpaces(PunctToSpace(ToLowerCase(name))))

\* the registry of ../../lib/expression: three of its categories
KeyJoy == <<"j", "o", "y">>
KeyAwe == <<"a", "w", "e">>
KeySurprisePositive ==
  <<"s", "u", "r", "p", "r", "i", "s", "e", "P", "o", "s", "i", "t", "i", "v", "e">>
ExpressionKeys == {KeyJoy, KeyAwe, KeySurprisePositive}

\* expressionLabels[key]
ExpressionLabels ==
  [k \in ExpressionKeys |->
     IF k = KeyJoy THEN <<"J", "o", "y">>
     ELSE IF k = KeyAwe THEN <<"A", "w", "e">>
     ELSE <<"S", "u", "r", "p", "r", "i", "s", "e", " ",
            "(", "p", "o", "s", "i", "t", "i", "v", "e", ")">>]

\* expressionColors[key]
ExpressionColors == [k \in ExpressionKeys |-> [kind |-> "registry", key |-> k]]

NoKey == Undefined

\* toExpressionKey(name), name a string
ToExpressionKey(name) ==
  IF Cleaned(name) = <<>> THEN NoKey
  ELSE IF Camel(SplitOnSpace(Cleaned(name), <<>>)) \in ExpressionKeys
       THEN Str(Camel(SplitOnSpace(Cleaned(name), <<>>)))
       ELSE NoKey

\* the resolution step of aggregateEmotions / collectEmotions for a raw name
\* that is a string: the display name, the colour and the dedupe key
Resolve(rawName) ==
  LET key == ToExpressionKey(rawName)
  IN [name |-> IF key # NoKey THEN ExpressionLabels[key.s] ELSE rawName,
      color |-> IF key # NoKey THEN ExpressionColors[key.s] ELSE ColorForFallback(rawName),
      dedupe |-> IF key # NoKey THEN key.s ELSE ToLowerCase(rawName)]

MaxName == 3           \* length of the enumerated raw names

NameZorp == <<"Z", "o", "r", "p">>
NameUnknown == <<"U", "n", "k", "n", "o", "w", "n">>

\* raw names: every string over four characters, and some longer ones
NameInputs ==
  SeqsUpTo({"J", "o", "y", "!"}, MaxName)
    \cup {NameZorp, <<"z", "o", "r", "p">>, NameZorp \o <<"!">>, NameUnknown,
          <<"(", "J", "O", "Y", ")">>, <<"A", "w", "e">>,
          ExpressionLabels[KeySurprisePositive],
          <<"s", "u", "r", "p", "r", "i", "s", "e", "-", "p", "o", "s", "i", "t", "i", "v", "e">>}

ResolveCalls == {[fn |-> "resolve", arg |-> Str(n)] : n \in NameInputs}

CallResolve ==
  /\ phase = "called"
  /\ call.fn = "resolve"
  /\ result' = Resolve(call.arg.s)
  /\ phase' = "returned"
  /\ UNCHANGED call
  /\ UNCHANGED nonPureVars

\* ------------------------------------------------------------------------
\* Emotion aggregator
\* ------------------------------------------------------------------------
MaxEmos == 3           \* emotion entries in the records given to one aggregation

AggNames == {<<"J", "o", "y">>, <<"J", "o", "y", "!">>, NameZorp, <<"z", "o", "r", "p">>}
AggScores == {Num(2000), Num(90 * One)}

\* an entry of p.emotions: {name, score}, a null entry, or an entry whose
\* name is a number or whose score is a string
EmotionEntries ==
  {[name |-> Str(n), score |-> sc] : n \in AggNames, sc \in AggScores}
    \cup {Null,
          [name |-> Num(5 * One), score |-> Num(9000)],
          [name |-> Str(NameZorp), score |-> Str(<<"0", ".", "9">>)]}

\* the records given to an aggregation: all entries in one record, or the
\* first entry in one record and the others in a second
AggInputs ==
  {<<[emotions |-> Arr(es)]>> : es \in SeqsUpTo(EmotionEntries, MaxEmos)}
    \cup {<<[emotions |-> Arr(SubSeq(es, 1, 1))], [emotions |-> Arr(SubSeq(es, 2, Len(es)))]>> :
            es \in SeqsUpTo(EmotionEntries, MaxEmos) \ {<<>>}}
    \cup {<<[emotions |-> Null]>>}

\* it.emotions || []   /   if (!Array.isArray(emos)) return
EmotionsOf(it) == IF it.emotions.t = "array" THEN it.emotions.a ELSE <<>>

\* the entries in the order the two nested loops visit them
EntriesOf(items) == Flatten([i \in 1..Len(items) |-> EmotionsOf(items[i])])

\* e?.name ?? "Unknown"
RawNameOf(e) ==
  IF e = Null THEN Str(NameUnknown)
  ELSE IF e.name \in {Undefined, Null} THEN Str(NameUnknown)
  ELSE e.name

\* e?.score
ScoreOf(e) == IF e = Null THEN Undefined ELSE e.score

\* bag.get(dedupe): the position of the key in the map (0 = no entry)
BagIndex(bag, dedupe) ==
  IF \E i \in 1..Len(bag) : bag[i].dedupe = dedupe
  THEN CHOOSE i \in 1..Len(bag) : bag[i].dedupe = dedupe
  ELSE 0

\* every entry of the identity overwrites the stored one
Replaces_Always(prevConfidence, conf) == TRUE

\* conf > prev.confidence
Replaces(prevConfidence, conf) == conf > prevConfidence

\* one pass of the inner loop body over the map (kept in insertion order)
BagSet(bag, e) ==
  LET r == Resolve(RawNameOf(e).s)
      conf == NormConfidence(ScoreOf(e))
      entry == [dedupe |-> r.dedupe,
                item |-> [name |-> r.name, confidence |-> conf, color |-> r.color]]
      at == BagIndex(bag, r.dedupe)
  IN IF at = 0 THEN Append(bag, entry)
     ELSE IF Replaces(bag[at].item.confidence, conf)
          THEN [bag EXCEPT ![at] = entry]
          ELSE bag

\* toExpressionKey(rawName) calls rawName.toLowerCase(): a TypeError unless
\* rawName is a string
NameThrows(e) == RawNameOf(e).t # "string"

RECURSIVE BagLoop(_, _, _)
\* the loops of aggregateEmotions over the entries from index i
BagLoop(entries, i, bag) ==
  IF i > Len(entries) THEN [t |-> "bag", bag |-> bag]
  ELSE IF NameThrows(entries[i]) THEN Threw
  ELSE BagLoop(entries, i + 1, BagSet(bag, entries[i]))

RECURSIVE InsertByConfidence(_, _)
\* x goes after every element whose confidence is not smaller (stable sort)
InsertByConfidence(sorted, x) ==
  IF sorted = <<>> THEN <<x>>
  ELSE IF Head(sorted).confidence >= x.confidence
       THEN <<Head(sorted)>> \o InsertByConfidence(Tail(sorted), x)
       ELSE <<x>> \o sorted

RECURSIVE SortLoop(_)
SortLoop(xs) ==
  IF xs = <<>> THEN <<>>
  ELSE InsertByConfidence(SortLoop(SubSeq(xs, 1, Len(xs) - 1)), xs[Len(xs)])

\* the values in map order, not sorted
SortByConfidence_Unsorted(xs) == xs

\* .sort((a, b) => b.confidence - a.confidence)
SortByConfidence(xs) == SortLoop(xs)

\* aggregateEmotions(items) / collectEmotions over the predictions `items`
AggregateEmotions(items) ==
  LET r == BagLoop(EntriesOf(items), 1, <<>>)
  IN IF r = Threw THEN Threw
     ELSE [t |-> "list",
           items |-> SortByConfidence([i \in 1..Len(r.bag) |-> r.bag[i].item])]

\* topN(arr, n): arr.slice(0, n)
TopN(arr, n) == SubSeq(arr, 1, Min(n, Len(arr)))

TopNs == {1, 3, 10}    \* 3 per row of the activity page, 10 per family overall

AggCalls == {[fn |-> "aggregateEmotions", arg |-> Arr(items)] : items \in AggInputs}

CallAggregateEmotions ==
  /\ phase = "called"
  /\ call.fn = "aggregateEmotions"
  /\ result' = AggregateEmotions(call.arg.a)
  /\ phase' = "returned"
  /\ UNCHANGED call
  /\ UNCHANGED nonPureVars

\* topN(aggregateEmotions(...), n)
CallTopN(n) ==
  /\ phase = "returned"
  /\ call.fn = "aggregateEmotions"
  /\ result.t = "list"
  /\ result' = [t |-> "top", items |-> result.items, n |-> n, top |-> TopN(result.items, n)]
  /\ phase' = "sliced"
  /\ UNCHANGED call
  /\ UNCHANGED nonPureVars

\* ------------------------------------------------------------------------
\* Extractor: payload -> items -> results.predictions -> models.<family>
\* .grouped_predictions -> predictions
\* ------------------------------------------------------------------------
Families == {"prosody", "language", "burst"}

Obj(fields) == [t |-> "object"] @@ fields
EmptyObject == [t |-> "object"]
NonArray == Str(<<"x">>)          \* a field that holds a string, not an array

\* v?.f
Get(v, f) == IF v.t = "object" /\ f \in DOMAIN v THEN v[f] ELSE Undefined

\* Array.isArray(v)
IsArray(v) == v.t = "array"

\* if (v): null, undefined, NaN and "" are falsy
Truthy(v) == v.t \notin {"null", "undefined", "NaN"} /\ v # Str(<<>>)

\* a prediction p of a family's inner list
LeafPredictions ==
  {Null,
   Obj([text |-> Str(<<"a">>), time |-> Obj([begin |-> Num(0), end |-> Num(One)]),
        emotions |-> Arr(<<>>)]),
   Obj([time |-> Obj([begin |-> Num(One), end |-> Num(2 * One)]), emotions |-> Arr(<<>>)]),
   Obj([text |-> Str(<<"b", ".">>)])}

\* a top-level item; each level of the path under it is missing, not an
\* array, or an array
Items ==
  LET InnerLists ==
        {Undefined, NonArray} \cup {Arr(ps) : ps \in SeqsUpTo(LeafPredictions, MaxLen)}
      Groups == {Null} \cup {Obj([predictions |-> i]) : i \in InnerLists}
      GroupLists == {Undefined, NonArray} \cup {Arr(<<g>>) : g \in Groups}
      FamilyModels == {Undefined} \cup {Obj([grouped_predictions |-> gs]) : gs \in GroupLists}
      ModelMaps == {Undefined} \cup {Obj(f :> m) : f \in Families, m \in FamilyModels}
      Predictions == {Null} \cup {Obj([models |-> m]) : m \in ModelMaps}
      PredictionLists == {Undefined, NonArray} \cup {Arr(<<pr>>) : pr \in Predictions}
      Results == {Undefined, Null} \cup {Obj([predictions |-> x]) : x \in PredictionLists}
  IN {Null, NonArray, EmptyObject} \cup {Obj([results |-> r]) : r \in Results}

\* two items whose language leaves are kept, for payloads of several items
ItemOf(p) ==
  Obj([results |-> Obj([predictions |-> Arr(<<Obj([models |->
         Obj([language |-> Obj([grouped_predictions |->
                Arr(<<Obj([predictions |-> Arr(<<p>>)])>>)])])])>>)])])

\* a stored payload: null, one result object, or an array of them
Payloads ==
  {Null, Str(<<>>), Arr(<<>>)} \cup Items \cup {Arr(<<it>>) : it \in Items}
    \cup {Arr(<<ItemOf(p), ItemOf(q)>>) : p, q \in LeafPredictions}

\* asItems that takes arrays only
AsItems_ArrayOnly(payload) == IF IsArray(payload) THEN payload.a ELSE <<>>

\* asItems(payload) / asTopLevelItems(payload)
AsItems(payload) ==
  IF IsArray(payload) THEN payload.a
  ELSE IF Truthy(payload) THEN <<payload>>
  ELSE <<>>

\* the elements of a field if it is an array: if (!Array.isArray(x)) continue
ElementsOf(v) == IF IsArray(v) THEN v.a ELSE <<>>

\* for (const g of groups) { inner = g?.predictions; ... for (const p of inner) }
LeavesOfGroups(groups) ==
  Flatten([k \in 1..Len(groups) |-> ElementsOf(Get(groups[k], "predictions"))])

\* for (const pred of preds) { groups = pred?.models?.<family>?.grouped_predictions }
LeavesOfPreds(preds, family) ==
  Flatten([k \in 1..Len(preds) |->
             LeavesOfGroups(ElementsOf(Get(Get(Get(preds[k], "models"), family),
                                           "grouped_predictions")))])

\* for (const it of asItems(payload)) { preds = it?.results?.predictions }
LeavesOf(payload, family) ==
  LET items == AsItems(payload)
  IN Flatten([k \in 1..Len(items) |->
                LeavesOfPreds(ElementsOf(Get(Get(items[k], "results"), "predictions")),
                              family)])

\* p?.time?.begin as a time of a record (Undef unless a number)
TimeOf(p, f) ==
  LET v == Get(Get(p, "time"), f)
  IN IF v.t = "number" THEN v.n \div Percent ELSE Undef

\* the fields the extractors read of a leaf: p?.text, p?.time?.begin, p?.time?.end
AsRecord(p) ==
  [text |-> IF Get(p, "text").t = "string" THEN Get(p, "text").s ELSE NoText,
   begin |-> TimeOf(p, "begin"),
   end |-> TimeOf(p, "end")]

RecordsOf(payload, family) ==
  LET ps == LeavesOf(payload, family)
  IN [k \in 1..Len(ps) |-> AsRecord(ps[k])]

\* getBurstEvents keeps every event
GetBurstEvents(raw) == raw

\* the three memos of the activity page: getProsodyUtterances(predictions),
\* getLanguageTokens(predictions), getBurstEvents(predictions)
Extract(payload) ==
  [t |-> "lists",
   prosody |-> GetProsodyUtterances(RecordsOf(payload, "prosody")),
   language |-> GetLanguageTokensActivity(RecordsOf(payload, "language")),
   burst |-> GetBurstEvents(RecordsOf(payload, "burst"))]

ExtractCalls == {[fn |-> "extract", arg |-> pl] : pl \in Payloads}

CallExtract ==
  /\ phase = "called"
  /\ call.fn = "extract"
  /\ result' = Extract(call.arg)
  /\ phase' = "returned"
  /\ UNCHANGED call
  /\ UNCHANGED nonPureVars

PureInit ==
  /\ call \in NormCalls \cup ResolveCalls \cup AggCalls \cup ExtractCalls
  /\ result = NoResult
  /\ phase = "called"

\* no pure helper is being called
PureIdle ==
  /\ call = NoCall
  /\ result = NoResult
  /\ phase = "idle"

PureNext ==
  \/ CallNormConfidence
  \/ CallResolve
  \/ CallAggregateEmotions
  \/ \E n \in TopNs : CallTopN(n)
  \/ CallExtract

\* ------------------------------------------------------------------------
\* Calls of the segmenter functions with given records and options
\* ------------------------------------------------------------------------
\* opts.maxTokens of a call
MaxTokensOpts == {1, 2, MaxTokens}

\* times around the two thresholds of the utterance merge
MergeTimes == {0, 1, 1 + ProsodyGap, 2 + ProsodyGap, MaxDuration, MaxDuration + 1}

\* what getProsodyUtterances passes on: text with numeric begin and end
Utterances == [text : {<<"a">>}, begin : MergeTimes, end : MergeTimes]

\* a call of one of the token segmenters, or of the utterance merge
IsSegmenterCall(c) ==
  \/ \E ts \in SeqsUpTo(WellFormedRecords, MaxLen), m \in MaxTokensOpts :
       \/ c = [fn |-> "segmentTokens",
               arg |-> [view |-> LanguageActivityClient, recs |-> ts, max |-> m]]
       \/ \E v \in SyncViews :
            c = [fn |-> "buildSegmentsFromLanguage",
                 arg |-> [view |-> v, recs |-> ts, max |-> m]]
  \/ \E v \in SyncViews, us \in SeqsUpTo(Utterances, MaxLen) :
       c = [fn |-> "mergeProsodyUtterances",
            arg |-> [view |-> v, recs |-> us, max |-> MaxDuration]]

\* what a call returned, with the records grouped into each segment
Segmented(segs, groups) == [t |-> "segments", segs |-> segs, groups |-> groups]

\* segmentTokens(tokens, {gap: 0.7, maxTokens})
CallSegmentTokens ==
  /\ phase = "called"
  /\ call.fn = "segmentTokens"
  /\ LET segs == SegmentTokens(call.arg.recs, TokenGap, call.arg.max)
     IN result' = Segmented(segs, [i \in 1..Len(segs) |-> segs[i].tokens])
  /\ phase' = "returned"
  /\ UNCHANGED call
  /\ UNCHANGED nonPureVars

\* buildSegmentsFromLanguage(tokens, {gap: 0.7, maxTokens}) of the activity page
CallBuildSegmentsFromLanguageActivity ==
  /\ phase = "called"
  /\ call.fn = "buildSegmentsFromLanguage"
  /\ call.arg.view = ActivityPage
  /\ LET groups == TokenLoop(ToksOfActivityPage(call.arg.recs), 1, <<>>, NoSegment,
                             TokenGap, call.arg.max)
     IN result' = Segmented(BuildSegmentsFromLanguageActivity(call.arg.recs, TokenGap,
                                                              call.arg.max),
                            [i \in 1..Len(groups) |-> groups[i].tokens])
  /\ phase' = "returned"
  /\ UNCHANGED call
  /\ UNCHANGED nonPureVars

\* buildSegmentsFromLanguage(tokens, {gap: 0.7, maxTokens}) of part_004
CallBuildSegmentsFromLanguage ==
  /\ phase = "called"
  /\ call.fn = "buildSegmentsFromLanguage"
  /\ call.arg.view = SegmentedExpressionPage
  /\ LET groups == TokenLoop(call.arg.recs, 1, <<>>, NoSegment, TokenGap, call.arg.max)
     IN result' = Segmented(BuildSegmentsFromLanguage(call.arg.recs, TokenGap, call.arg.max),
                            [i \in 1..Len(groups) |-> groups[i].tokens])
  /\ phase' = "returned"
  /\ UNCHANGED call
  /\ UNCHANGED nonPureVars

\* mergeProsodyUtterances(utts, {gap: 0.6, maxDuration}) of the two pages
CallMergeProsodyUtterances ==
  /\ phase = "called"
  /\ call.fn = "mergeProsodyUtterances"
  /\ LET groups == MergeGroups(call.arg.recs, ProsodyGap, call.arg.max)
     IN result' = Segmented(MergeProsodyUtterances(call.arg.recs, ProsodyGap, call.arg.max),
                            [i \in 1..Len(groups) |-> groups[i].utts])
  /\ phase' = "returned"
  /\ UNCHANGED call
  /\ UNCHANGED nonPureVars

SegmentersInit ==
  /\ IsSegmenterCall(call)
  /\ result = NoResult
  /\ phase = "called"

SegmentersNext ==
  \/ CallSegmentTokens
  \/ CallBuildSegmentsFromLanguageActivity
  \/ CallBuildSegmentsFromLanguage
  \/ CallMergeProsodyUtterances

\* the remote is not yet known to answer every request
RemoteIdle == remoteGood = FALSE

InitPure == PureInit /\ PollIdle /\ SegIdle /\ SyncIdle /\ AudioIdle /\ RemoteIdle

SpecPure == InitPure /\ [][PureNext]_vars

InitSegmenters ==
  SegmentersInit /\ PollIdle /\ SegIdle /\ SyncIdle /\ AudioIdle /\ RemoteIdle

SpecSegmenters == InitSegmenters /\ [][SegmentersNext]_vars

InitSync == SyncInit /\ PollIdle /\ PureIdle /\ AudioIdle /\ RemoteIdle

SpecSync == InitSync /\ [][SyncNext]_vars

InitSeg == SegInit /\ PollIdle /\ SyncIdle /\ PureIdle /\ AudioIdle /\ RemoteIdle

SpecSeg == InitSeg /\ [][SegNext]_vars

InitPoll == PollInit /\ SegIdle /\ SyncIdle /\ PureIdle /\ AudioIdle /\ RemoteIdle

SpecPoll == InitPoll /\ [][PollNext]_vars

\* ------------------------------------------------------------------------
\* Polling of a view that stays mounted for one job, against a remote that
\* from some point on answers every request, the predictions with content
\* ------------------------------------------------------------------------
GoodPredsReplies == {[ok |-> TRUE, kind |-> b] : b \in {"array", "object"}}

\* the interval of effect run g fires again: tick() up to its first await,
\* kept in the first record k of a tick that is over (or was never used)
TimerFireAgain(g, k) ==
  /\ g \in timers
  /\ ticks[k].pc \in {"unused", "done"}
  /\ \A h \in 1..(k - 1) : ticks[h].pc \notin {"unused", "done"}
  /\ ticks' = [ticks EXCEPT ![k] = [gen |-> g, pc |-> FirstAwait(view)]]
  /\ TickHead(k)
  /\ nextTick' = Max(nextTick, k)
  /\ last' = Step("timer", 0, "")
  /\ UNCHANGED <<view, life, jobId, status, predictions, pollRef, timers, curEffect,
                 nextGen, effJob, cancelled, maxApplied>>
  /\ UNCHANGED nonPollVars

\* a fetch throws only while the remote is not yet answering
FetchFailWhileBad(k) == ~remoteGood /\ FetchFail(k)

\* the predictions fetch resolves; with content once the remote is good
PredsResponseLive(k, r) == (remoteGood => r \in GoodPredsReplies) /\ PredsResponse(k, r)

\* from now on the remote answers every request
RemoteTurnsGood ==
  /\ ~remoteGood
  /\ remoteGood' = TRUE
  /\ UNCHANGED <<pollVars, segVars, syncVars, pureVars, audioVars>>

LiveNext ==
  \/ Mount
  \/ \E g \in Gens, k \in TickIds : TimerFireAgain(g, k)
  \/ \E k \in TickIds, r \in StatusReplies : StatusResponse(k, r)
  \/ \E k \in TickIds : FetchFailWhileBad(k)
  \/ \E k \in TickIds, r \in PredsReplies : PredsResponseLive(k, r)
  \/ RemoteTurnsGood

InitLive ==
  /\ PollInit
  /\ jobId \in Jobs
  /\ SegIdle /\ SyncIdle /\ PureIdle /\ AudioIdle /\ RemoteIdle

\* a step of the view: the effect after the commit, a firing of an armed
\* interval, or the arrival of a response
ViewStep ==
  \/ Mount
  \/ \E g \in Gens, k \in TickIds : TimerFireAgain(g, k)
  \/ \E k \in TickIds, r \in StatusReplies : StatusResponse(k, r)
  \/ \E k \in TickIds, r \in PredsReplies : PredsResponseLive(k, r)

\* the event loop does not stop while a timer is armed or a response is due
LiveFairness == WF_vars(ViewStep)

SpecLive == InitLive /\ [][LiveNext]_vars /\ LiveFairness

InitAudio == AudioInit /\ PollIdle /\ SegIdle /\ SyncIdle /\ PureIdle /\ RemoteIdle

SpecAudio == InitAudio /\ [][AudioNext]_vars

\* ------------------------------------------------------------------------
\* Properties of the segmenters
\* ------------------------------------------------------------------------

\* C1: the built segment list is ordered by begin and consecutive segments do
\* not overlap: segments[i].end <= segments[i+1].begin.
C1_SegmentsOrderedNoOverlap ==
  segPhase = "built" =>
    \A i \in 1..(Len(segments) - 1) :
      /\ segments[i].begin <= segments[i + 1].begin
      /\ segments[i].end <= segments[i + 1].begin

\* C2: every built segment has begin <= end.
C2_SegmentBeginLeEnd ==
  segPhase = "built" =>
    \A i \in 1..Len(segments) : segments[i].begin <= segments[i].end

\* C12: when the segments are built from tokens, the buffers of the segments,
\* concatenated in segment order, are exactly the tokens the segmenter walked,
\* in the order it walked them (none lost, none twice); no buffer is empty,
\* and each segment begins with its first token and ends with its last.
C12_TokenPartition ==
  (segPhase = "built" /\ variant = "tokens") =>
    /\ Flatten(buffs) = ToksOf(segView, langRaw)
    /\ Len(buffs) = Len(segments)
    /\ \A i \in 1..Len(buffs) :
         /\ buffs[i] # <<>>
         /\ segments[i].begin = buffs[i][1].begin
         /\ segments[i].end = buffs[i][Len(buffs[i])].end

\* two tokens given out of order were sorted and share one segment
C12_Witness ==
  /\ segPhase = "built"
  /\ segView = ActivityPage
  /\ Len(langRaw) = 2
  /\ langRaw[1].begin > langRaw[2].begin
  /\ Len(buffs) = 1
  /\ Len(buffs[1]) = 2

\* C13: the two pages build the segments by token segmentation exactly when
\* the payload holds a language token, and by the utterance merge otherwise.
C13_TokensPreferred ==
  (segPhase = "built" /\ segView \in {ActivityPage, SegmentedExpressionPage}) =>
    (variant = "tokens" <=> Len(langRaw) > 0)

\* a record with numeric times whose begin is greater than its end
Reversed(r) == IsNumber(r.begin) /\ IsNumber(r.end) /\ r.begin > r.end

\* C14: a language record whose begin is greater than its end is in no
\* segment's buffer (so in no segment's text or span), in no row's window of
\* aggregated tokens, and not among the records of the whole-job aggregate.
C14_ReversedRecordDropped ==
  segPhase = "built" =>
    /\ \A i \in 1..Len(buffs) : \A k \in 1..Len(buffs[i]) : ~Reversed(buffs[i][k])
    /\ \A i \in 1..Len(tokensInWin) :
         \A k \in 1..Len(tokensInWin[i]) : ~Reversed(tokensInWin[i][k])
    /\ \A k \in 1..Len(collected) : ~Reversed(collected[k])

\* C24: the span of every segment built from tokens covers each token of its
\* buffer: segment.begin <= token.begin and token.end <= segment.end.
C24_SegmentCoversRecords ==
  (segPhase = "built" /\ variant = "tokens") =>
    \A i \in 1..Len(buffs) : \A k \in 1..Len(buffs[i]) :
      /\ segments[i].begin <= buffs[i][k].begin
      /\ buffs[i][k].end <= segments[i].end

\* C25: on the activity page every token of a segment's buffer is among the
\* language tokens the row of that segment aggregates (its window query).
C25_WindowHoldsOwnTokens ==
  (segPhase = "built" /\ segView = ActivityPage /\ variant = "tokens") =>
    \A i \in 1..Len(buffs) : \A k \in 1..Len(buffs[i]) :
      \E n \in 1..Len(tokensInWin[i]) : tokensInWin[i][n] = buffs[i][k]

\* ------------------------------------------------------------------------
\* Properties of the segmenter functions
\* ------------------------------------------------------------------------

\* the records a call walked, in the order it walked them
Walked == Flatten(result.groups)

\* the position in Walked of the first record of group g
StartOf(g) == Len(Flatten(SubSeq(result.groups, 1, g - 1))) + 1

\* record i of Walked is the first of its group
IsStart(i) == \E g \in 1..Len(result.groups) : StartOf(g) = i

\* the position of the first record of the group that holds record i
GroupStart(i) ==
  CHOOSE b \in 1..i : IsStart(b) /\ \A c \in (b + 1)..i : ~IsStart(c)

TokenCallReturned ==
  phase = "returned" /\ call.fn \in {"segmentTokens", "buildSegmentsFromLanguage"}

MergeCallReturned == phase = "returned" /\ call.fn = "mergeProsodyUtterances"

\* every segment spans from its first record's begin to its last record's end
SpansFollowGroups ==
  /\ Len(result.segs) = Len(result.groups)
  /\ \A g \in 1..Len(result.groups) :
       /\ result.groups[g] # <<>>
       /\ result.segs[g].begin = result.groups[g][1].begin
       /\ result.segs[g].end = result.groups[g][Len(result.groups[g])].end

\* C22: in each of the three token segmenters a token starts a new segment
\* exactly when it is the first token, or its begin minus the previous token's
\* end is greater than 0.7, or the previous token's text holds . ! or ?, or
\* the open segment holds maxTokens tokens; otherwise it extends the open
\* segment, whose end becomes the token's end.
C22_NewSegmentRule ==
  TokenCallReturned =>
    /\ \A i \in 1..Len(Walked) :
         IsStart(i) <=>
           \/ i = 1
           \/ Walked[i].begin - Walked[i - 1].end > TokenGap
           \/ \E n \in 1..Len(Walked[i - 1].text) : Walked[i - 1].text[n] \in {".", "!", "?"}
           \/ i - GroupStart(i - 1) >= call.arg.max
    /\ SpansFollowGroups

\* two tokens exactly 0.7 apart share a segment; with 0.71 they would not
C22_Witness ==
  /\ TokenCallReturned
  /\ Len(Walked) = 2
  /\ Walked[2].begin - Walked[1].end = TokenGap
  /\ Len(result.segs) = 1

\* the number of times r occurs in seq
CountIn(seq, r) == Cardinality({i \in 1..Len(seq) : seq[i] = r})

\* C23: the utterance merge walks the utterances in ascending begin order, and
\* an utterance joins the open segment exactly when its begin minus the open
\* segment's end is at most 0.6 and its end minus the open segment's begin is
\* at most 8; otherwise it starts a new segment.
C23_MergeRule ==
  MergeCallReturned =>
    /\ \A r \in Utterances : CountIn(Walked, r) = CountIn(call.arg.recs, r)
    /\ \A i \in 1..(Len(Walked) - 1) : Walked[i].begin <= Walked[i + 1].begin
    /\ \A i \in 2..Len(Walked) :
         ~IsStart(i) <=>
           /\ Walked[i].begin - Walked[i - 1].end <= ProsodyGap
           /\ Walked[i].end - Walked[GroupStart(i - 1)].begin <= MaxDuration
    /\ IsStart(1) \/ Walked = <<>>
    /\ SpansFollowGroups

\* utterances given out of order, merged with a silence of exactly 0.6
C23_Witness ==
  /\ MergeCallReturned
  /\ Len(call.arg.recs) = 2
  /\ call.arg.recs[1].begin > call.arg.recs[2].begin
  /\ Len(result.segs) = 1
  /\ Walked[2].begin - Walked[1].end = ProsodyGap

\* C26: a segment the merge made of two or more utterances is at most 8 s long.
C26_MergedDurationBounded ==
  MergeCallReturned =>
    \A g \in 1..Len(result.groups) :
      Len(result.groups[g]) >= 2 => result.segs[g].end - result.segs[g].begin <= MaxDuration

\* two utterances merged into a segment of exactly 8 s
C26_Witness ==
  /\ MergeCallReturned
  /\ Len(result.segs) = 1
  /\ Len(result.groups[1]) = 2
  /\ result.segs[1].end - result.segs[1].begin = MaxDuration

\* the (begin, end) spans of a list of segments
SpansOf(segs) == [i \in 1..Len(segs) |-> <<segs[i].begin, segs[i].end>>]

\* the tokens of a call all have begin <= end
OrderedTimes == \A i \in 1..Len(call.arg.recs) : call.arg.recs[i].begin <= call.arg.recs[i].end

\* the tokens of a call are in ascending order of begin
AscendingBegin ==
  \A i \in 1..(Len(call.arg.recs) - 1) : call.arg.recs[i].begin <= call.arg.recs[i + 1].begin

\* the spans and the grouping the call returned are those of all three copies
SameAsAllCopies ==
  LET recs == call.arg.recs
      max == call.arg.max
      client == SegmentTokens(recs, TokenGap, max)
      activity == TokenLoop(ToksOfActivityPage(recs), 1, <<>>, NoSegment, TokenGap, max)
      expression == TokenLoop(recs, 1, <<>>, NoSegment, TokenGap, max)
  IN /\ SpansOf(result.segs) = SpansOf(client)
     /\ SpansOf(result.segs) = SpansOf(BuildSegmentsFromLanguageActivity(recs, TokenGap, max))
     /\ SpansOf(result.segs) = SpansOf(BuildSegmentsFromLanguage(recs, TokenGap, max))
     /\ result.groups = [i \in 1..Len(client) |-> client[i].tokens]
     /\ result.groups = [i \in 1..Len(activity) |-> activity[i].tokens]
     /\ result.groups = [i \in 1..Len(expression) |-> expression[i].tokens]

\* C30 as stated: for every list of tokens with text, numeric times and
\* begin <= end, the three segmenters return the same spans and grouping.
C30_CopiesAgree ==
  (TokenCallReturned /\ OrderedTimes) => SameAsAllCopies

\* C30, amended: for every such list that is in ascending order of begin (as
\* getLanguageTokens hands it over), the three segmenters return the same
\* spans and the same grouping.
C30_CopiesAgreeOnSortedTokens ==
  (TokenCallReturned /\ OrderedTimes /\ AscendingBegin) => SameAsAllCopies

\* a sorted list that the size limit splits into two segments
C30_Witness ==
  /\ TokenCallReturned
  /\ OrderedTimes
  /\ AscendingBegin
  /\ call.arg.max = 1
  /\ Len(call.arg.recs) = 2
  /\ call.arg.recs[2].begin - call.arg.recs[1].end <= TokenGap
  /\ Len(result.segs) = 2

\* ------------------------------------------------------------------------
\* Properties of the timeline synchroniser
\* ------------------------------------------------------------------------

\* the segment that holds position t, as the claim defines it: an index i with
\* segments[i].begin <= t < segments[i].end exists
InSomeSegment(t) == \E i \in 1..Len(segments) : Contains(segments[i], t)

\* C9: after every time update at position t the active index is an index
\* whose segment contains t, and is none when no segment contains t.
C9_ActiveIsSegmentAtTime ==
  attached =>
    IF InSomeSegment(currentTime)
    THEN activeIdx # NullIdx /\ Contains(segments[activeIdx + 1], currentTime)
    ELSE activeIdx = NullIdx

\* C10: a time update writes the active index and scrolls exactly when
\* playback enters a segment, that is when the segment holding the new
\* position is not the one that held the previous position.
C10_ReportedOncePerEntry ==
  [][\A t \in Times :
       TimeUpdate(t) =>
         ((reported' # NotFound)
            <=> (FindIndex(segments, t) # NotFound
                   /\ FindIndex(segments, t) # FindIndex(segments, currentTime)))]_vars

\* C11: after a click on a row the position is the row's begin + 0.01 (at
\* least 0) and the element plays; if the row's segment is longer than 0.01,
\* the first segment that contains the position is the row's segment.
C11_SeekSelectsSoughtSegment ==
  sought # NotFound =>
    /\ currentTime = Max(0, segments[sought + 1].begin + Epsilon)
    /\ playing
    /\ (segments[sought + 1].end - segments[sought + 1].begin > Epsilon
          => FindIndex(segments, currentTime) = sought)

\* ------------------------------------------------------------------------
\* Properties of the pure helpers
\* ------------------------------------------------------------------------

\* C19: the normaliser returns a value in [0,1]: 0 for a non-number or NaN,
\* min(1, v/100) for v > 1, and v clamped to [0,1] for v <= 1; so 50 gives
\* 0.5, 0.5 gives 0.5, 150 gives 1 and -3 gives 0.
C19_NormaliserRange ==
  (phase = "returned" /\ call.fn = "normConfidence") =>
    LET v == call.arg
        r == result.n
    IN /\ r \in 0..One
       /\ v.t # "number" => r = 0
       /\ (v.t = "number" /\ v.n > One) =>
            (IF v.n >= 100 * One THEN r = One ELSE r * 100 = v.n)
       /\ (v.t = "number" /\ v.n <= One) =>
            (IF v.n < 0 THEN r = 0 ELSE r = v.n)
       /\ v = Num(50 * One) => r = 5000
       /\ v = Num(5000) => r = 5000
       /\ v = Num(150 * One) => r = One
       /\ v = Num(-30000) => r = 0

\* 50 was taken as a percentage
C19_Witness ==
  /\ phase = "returned"
  /\ call = [fn |-> "normConfidence", arg |-> Num(50 * One)]
  /\ result = Num(5000)

\* C20: the resolved label and colour depend on the raw name only: a name of
\* the registry (in any case, with punctuation or parentheses) gets the
\* registry's label and colour; any other name gets itself as label and
\* hsl(h, 70%, 60%) with h in 0..359, h = 0 for the empty name and
\* h(name + c) = (h(name) * 31 + charCode(c)) mod 360; "Zorp" gets hue 67.
C20_ResolverHash ==
  (phase = "returned" /\ call.fn = "resolve") =>
    LET raw == call.arg.s
        n == Len(raw)
    IN /\ result.color.kind = "registry" =>
            /\ result.color.key \in ExpressionKeys
            /\ result.name = ExpressionLabels[result.color.key]
       /\ result.color.kind = "hsl" =>
            /\ result.name = raw
            /\ result.color.h \in 0..359
            /\ result.color.s = 70 /\ result.color.l = 60
            /\ n = 0 => result.color.h = 0
            /\ n > 0 =>
                 result.color.h =
                   (ColorForFallback(SubSeq(raw, 1, n - 1)).h * 31 + CharCodeAt(raw[n])) % 360
       /\ raw \in {<<"J", "o", "y">>, <<"J", "o", "y", "!">>, <<"(", "J", "O", "Y", ")">>}
            => result.color = [kind |-> "registry", key |-> KeyJoy]
       /\ raw = ExpressionLabels[KeySurprisePositive]
            => result.color = [kind |-> "registry", key |-> KeySurprisePositive]
       /\ raw \in {NameZorp, <<"z", "o", "r", "p">>, NameUnknown, <<>>, <<"J", "o">>}
            => result.color.kind = "hsl"
       /\ raw = NameZorp => result.color.h = 67

\* the unrecognised name "Zorp" was resolved to itself and hue 67
C20_Witness ==
  /\ phase = "returned"
  /\ call = [fn |-> "resolve", arg |-> Str(NameZorp)]
  /\ result.name = NameZorp
  /\ result.color = Hsl(67)

\* the identity the claims give each display name of the aggregator's inputs:
\* the canonical key, or the lower-cased raw name
Identity ==
  [n \in AggNames \cup {NameUnknown} \cup {ExpressionLabels[k] : k \in ExpressionKeys} |->
     Resolve(n).dedupe]

\* the identity of a well-typed entry and of an output item
EntryIdentity(e) == Identity[RawNameOf(e).s]
ItemIdentity(x) == Identity[x.name]

\* an aggregation has returned its list (directly, or before topN cut it)
Aggregated == call.fn = "aggregateEmotions" /\ result.t \in {"list", "top"}

\* C15: the aggregated list holds exactly one item per identity of the
\* entries (canonical key, or lower-cased raw name), also for raw names that
\* differ in case or punctuation, and the item's confidence is the greatest
\* normalised confidence among the entries of that identity.
C15_OneItemPerIdentityMax ==
  Aggregated =>
    LET es == EntriesOf(call.arg.a)
        out == result.items
    IN /\ \A i, j \in 1..Len(out) :
            ItemIdentity(out[i]) = ItemIdentity(out[j]) => i = j
       /\ \A k \in 1..Len(es) :
            \E i \in 1..Len(out) :
              /\ ItemIdentity(out[i]) = EntryIdentity(es[k])
              /\ out[i].confidence >= NormConfidence(ScoreOf(es[k]))
       /\ \A i \in 1..Len(out) :
            \E k \in 1..Len(es) :
              /\ ItemIdentity(out[i]) = EntryIdentity(es[k])
              /\ out[i].confidence = NormConfidence(ScoreOf(es[k]))

\* "Joy" at 90 (0.9) and then "Joy!" at 0.2, in two records, gave one item at 0.9
C15_Witness ==
  /\ Aggregated
  /\ call.arg.a =
       <<[emotions |-> Arr(<<[name |-> Str(<<"J", "o", "y">>), score |-> Num(90 * One)]>>)],
         [emotions |-> Arr(<<[name |-> Str(<<"J", "o", "y", "!">>), score |-> Num(2000)]>>)]>>
  /\ Len(result.items) = 1
  /\ result.items[1].confidence = 9000

\* the first entry of an identity, in the order the entries are visited
FirstSeen(es, d) == CHOOSE k \in 1..Len(es) :
  /\ EntryIdentity(es[k]) = d
  /\ \A m \in 1..(k - 1) : EntryIdentity(es[m]) # d

\* C16: the aggregated list is in descending confidence, items of equal
\* confidence are in the order their identities were first seen, and the
\* top-N list is the first min(N, length) items of it.
C16_SortedStableTopN ==
  Aggregated =>
    LET es == EntriesOf(call.arg.a)
        out == result.items
    IN /\ \A i, j \in 1..Len(out) :
            i < j =>
              /\ out[i].confidence >= out[j].confidence
              /\ out[i].confidence = out[j].confidence =>
                   FirstSeen(es, ItemIdentity(out[i])) < FirstSeen(es, ItemIdentity(out[j]))
       /\ result.t = "top" =>
            /\ Len(result.top) = Min(result.n, Len(out))
            /\ \A i \in 1..Len(result.top) : result.top[i] = out[i]

\* three identities, the last seen with the greatest confidence and the other
\* two tied, cut to the top one
C16_Witness ==
  /\ Aggregated
  /\ result.t = "top"
  /\ result.n = 1
  /\ Len(result.items) = 3
  /\ Len(result.top) = 1
  /\ result.items[2].confidence = result.items[3].confidence
  /\ result.items[1].confidence > result.items[2].confidence
  /\ EntryIdentity(EntriesOf(call.arg.a)[3]) = ItemIdentity(result.items[1])

\* C17: no call of a helper on a payload's values throws.
C17_NeverThrows ==
  phase = "returned" => result # Threw

\* the elements of a value as a set: none unless it is an array
Elems(v) == IF IsArray(v) THEN {v.a[i] : i \in 1..Len(v.a)} ELSE {}

\* the leaves a payload holds for a family along a path of arrays, from a
\* list of top-level items
LeafSet(items, family) ==
  UNION {UNION {UNION {Elems(Get(g, "predictions")) :
                         g \in Elems(Get(Get(Get(pr, "models"), family),
                                         "grouped_predictions"))} :
                  pr \in Elems(Get(Get(it, "results"), "predictions"))} :
           it \in items}

\* the top-level items the claim gives a payload: the elements of an array,
\* the object itself, nothing for null or an empty payload
ItemSet(payload) ==
  IF IsArray(payload) THEN Elems(payload)
  ELSE IF payload \in {Null, Undefined, Str(<<>>)} THEN {}
  ELSE {payload}

Range(f) == {f[i] : i \in DOMAIN f}

\* C18: a single result object is extracted as the one-element array of it;
\* the lists hold exactly the leaves found along arrays on the path items ->
\* results.predictions -> models.<family>.grouped_predictions -> predictions
\* (a missing or non-array field contributes nothing); null and empty
\* payloads give three empty lists.
C18_ExtractShapes ==
  (phase = "returned" /\ call.fn = "extract") =>
    LET pl == call.arg
    IN /\ ~IsArray(pl) /\ Truthy(pl) => result = Extract(Arr(<<pl>>))
       /\ Range(result.language) = {AsRecord(p) : p \in LeafSet(ItemSet(pl), "language")}
       /\ Range(result.burst) = {AsRecord(p) : p \in LeafSet(ItemSet(pl), "burst")}
       /\ Range(result.prosody) =
            {r \in {AsRecord(p) : p \in LeafSet(ItemSet(pl), "prosody")} : HasTextAndTimes(r)}
       /\ pl \in {Null, Str(<<>>), Arr(<<>>), EmptyObject, Arr(<<EmptyObject>>)} =>
            /\ result.prosody = <<>>
            /\ result.language = <<>>
            /\ result.burst = <<>>

\* a single result object (not an array) gave its language token
C18_Witness ==
  /\ phase = "returned"
  /\ call.fn = "extract"
  /\ call.arg.t = "object"
  /\ Len(result.language) = 1
  /\ result.language[1] = [text |-> <<"a">>, begin |-> 0, end |-> 100]

\* ------------------------------------------------------------------------
\* Properties of the polling effect
\* ------------------------------------------------------------------------

\* C3: once an effect run has been torn down, a step of one of its ticks that
\* was still in flight writes neither status, predictions nor error.
C3_NoWriteAfterTeardown ==
  [][\A k \in TickIds :
       (TornDown(ticks[k].gen) /\ ticks'[k] # ticks[k])
         => UNCHANGED <<status, predictions, error>>]_vars

\* C4: at the step in which a tick observes an OK non-empty predictions
\* payload the interval of its effect run is not armed afterwards; the
\* interval of a torn-down run is not armed; an interval that is not armed is
\* never armed again; and a tick is only started for a run whose interval is
\* armed (or by the effect body itself).
C4_TimerCleared ==
  /\ [](\A g \in Gens : TornDown(g) => g \notin timers)
  /\ [][/\ last'.op \in {"content", "contentDropped"}
             => ticks[last'.tick].gen \notin timers'
        /\ \A g \in Gens : (g <= nextGen /\ g \notin timers) => g \notin timers'
        /\ \A k \in TickIds :
             (ticks[k].pc = "unused" /\ ticks'[k].pc # "unused"
                /\ ticks'[k].gen <= nextGen)
               => ticks'[k].gen \in timers]_vars

\* the tick of the live run delivered content and cleared the interval itself
C4_Witness ==
  /\ life = "mounted"
  /\ last.op = "content"
  /\ ticks[last.tick].gen = curEffect
  /\ pollRef = 0
  /\ timers = {}

\* C5: once the stored predictions are non-empty, every step leaves them
\* non-empty.
C5_LatchOnceNonEmpty ==
  [][HasContent(predictions) => HasContent(predictions')]_vars

C5_Witness ==
  /\ HasContent(predictions)
  /\ last.op \in {"empty", "predsNotOk", "fail"}

\* C6: when a tick applies a non-empty predictions payload while the status is
\* QUEUED, IN_PROGRESS or UNKNOWN, the status becomes RESULTS_READY.
C6_ResultsReadyFromPredictions ==
  (last.op = "content" /\ last.prev \in {"QUEUED", "IN_PROGRESS", "UNKNOWN"})
    => status = "RESULTS_READY"

\* the only tick ever started was told QUEUED, never COMPLETED
C6_Witness ==
  /\ view = LanguageActivityClient
  /\ nextTick = 1
  /\ last.op = "content"
  /\ last.prev = "QUEUED"
  /\ status = "RESULTS_READY"

\* C7: a failed fetch of a tick leaves every armed interval armed and pollRef
\* as it is, and sets the error message (unless the tick's run is cancelled).
C7_FailedFetchKeepsPolling ==
  [][last'.op = "fail" =>
       /\ timers' = timers
       /\ pollRef' = pollRef
       /\ (~IsCancelled(ticks[last'.tick].gen) => error' = ErrMsg)]_vars

\* the interval of the only effect run started a tick after a fetch had failed
\* (the activity page never resets the error)
C7_Witness ==
  /\ view = ActivityPage
  /\ nextGen = 1
  /\ error = ErrMsg
  /\ last.op = "timer"
  /\ ticks[nextTick].gen \in timers

\* C8: responses are applied whatever their age: after a status response of a
\* tick whose write is not guarded off, the status is the one that response
\* carried, and after a predictions response of the activity page that does
\* not deliver content the status is IN_PROGRESS, also when the response of a
\* newer tick has been applied before.
C8_LastWriteWins ==
  /\ (last.op = "status"
        /\ ~(StatusWriteGuarded(view) /\ IsCancelled(ticks[last.tick].gen)))
       => status = last.wrote
  /\ (view = ActivityPage /\ last.op \in {"empty", "predsNotOk"})
       => status = "IN_PROGRESS"

\* a stale response took the status from RESULTS_READY back to IN_PROGRESS
\* while the run was live
C8_Witness ==
  /\ last.tick # 0
  /\ last.tick < maxApplied
  /\ last.prev = "RESULTS_READY"
  /\ status = "IN_PROGRESS"
  /\ life = "mounted"

\* C27: whenever the displayed status is RESULTS_READY, a non-empty
\* predictions payload is stored (the remote reports only the statuses of
\* RemoteStatus, never RESULTS_READY).
C27_ReadyImpliesPredictions ==
  status = "RESULTS_READY" => HasContent(predictions)

\* a tick stored a payload and made the status RESULTS_READY
C27_Witness ==
  /\ last.op = "content"
  /\ last.prev # "RESULTS_READY"
  /\ status = "RESULTS_READY"
  /\ HasContent(predictions)

\* C29: while an effect run stays registered, its armed interval is disarmed
\* only by a step in which a tick of that same run applies a non-empty
\* payload; and a tick of a run started for another job than the one shown
\* leaves the stored predictions as they are.
C29_OldTickLeavesNewJobAlone ==
  [][/\ (curEffect # 0 /\ curEffect' = curEffect /\ curEffect \in timers
           /\ curEffect \notin timers')
          => (last'.op = "content" /\ ticks[last'.tick].gen = curEffect)
     /\ \A k \in TickIds :
          (ticks'[k] # ticks[k] /\ ticks[k].pc # "unused"
             /\ effJob[ticks[k].gen] # jobId)
            => predictions' = predictions]_vars
\* ------------------------------------------------------------------------
\* Properties of the audio source resolution
\* ------------------------------------------------------------------------

\* C21: when a resolution completes for a run that is still registered, the
\* audio URL becomes the object URL of the job's stored blob if there is one,
\* else the job's session URL if that is a non-empty string, else the ?audio=
\* parameter if that is a non-empty string, else null (a missing blob is no
\* error: the resolution completes); when it completes for a run that has
\* been torn down, the audio URL stays as it was.
C21_AudioSourcePriority ==
  audioLast.op = "resolved" =>
    IF audioLast.torn THEN audioUrl = audioLast.prev
    ELSE audioUrl =
           (IF audioLast.blob THEN BlobUrl(loads[audioLast.run].job)
            ELSE IF audioLast.ss \notin {NoUrl, EmptyUrl} THEN audioLast.ss
            ELSE IF audioLast.qp \notin {NoUrl, EmptyUrl} THEN audioLast.qp
            ELSE NoUrl)

\* no blob is stored for the job and both fallbacks are set: the session URL won
C21_Witness ==
  /\ audioLast.op = "resolved"
  /\ ~audioLast.torn
  /\ ~audioLast.blob
  /\ audioLast.ss = SessionUrl(audioJob)
  /\ audioLast.qp = QueryUrl
  /\ audioUrl = SessionUrl(audioJob)
====
